---- MODULE Spec2Model ----
(***************************************************************************)
(* Weekly aggregation engine of jira_analytics_bot:                        *)
(*   JiraService.calculate_working_weeks / collect_project_data            *)
(*   AnalyticsService.analyze_project / _create_weekly_stats / reports     *)
(*   JiraTelegramBot._get_unique_no_worklog_tasks                          *)
(*                                                                         *)
(* Representation.                                                         *)
(*  - A datetime is the number of seconds since 00:00:00 of day 0, and     *)
(*    day 0 is a Monday; the datetimes are naive (datetime.now()), so the  *)
(*    arithmetic of timedelta is integer arithmetic.  The microsecond of   *)
(*    the reference date is held apart: replace(microsecond=0) clears it   *)
(*    before the windows are computed, whose microsecond is 0.             *)
(*  - A calendar date is a day number; a 'YYYY-MM-DD' string is held as    *)
(*    the day number it denotes.                                           *)
(*  - Hours are the exact rationals seconds/3600, held as their numerator  *)
(*    (a number of seconds); round(2) yields hundredths of an hour.        *)
(*  - A dict is a function when only its content is read, and a sequence   *)
(*    of items in insertion order when it is iterated.                     *)
(***************************************************************************)
EXTENDS Integers, Sequences, FiniteSets, TLC

\* ------------------------------------------------------------------ bounds
MaxWeeks == 2
MaxLogs == 2

\* ------------------------------------------------------- program constants
SecondsPerDay == 86400
DaysPerWeek == 7

\* ------------------------------------------------------------------ inputs
Authors == {"alice", "bob"}
NoAssignee == "None"
Unassigned == "Ne naznachen"
TotalLabel == "Vsego"
FullDataKey == <<"_full_data">>

\* The Monday of the week the analysis runs in, late enough for every window
\* to start at a non-negative day.
BaseDay == DaysPerWeek * (MaxWeeks + 1)

\* timeSpentSeconds of the work logs an author writes (alice 20 min, bob 2 h)
\* and timeoriginalestimate of an issue (none, 8 h).
TimeSpent == [a \in Authors |-> IF a = "alice" THEN 1200 ELSE 7200]
EstimateSeconds == {0, 28800}

\* ------------------------------------------------------------ datetime
date(dt) == dt \div SecondsPerDay

weekday(dt) == date(dt) % DaysPerWeek

timedelta(days, hours, minutes, seconds) ==
    days * SecondsPerDay + hours * 3600 + minutes * 60 + seconds

\* replace(hour=0, minute=0, second=0, microsecond=0)
replace_midnight(dt) == date(dt) * SecondsPerDay

\* ------------------------------------------------ calculate_working_weeks
\* the day of the reference date i weeks back, whatever its weekday
start_of_week_from_today(current_date, i) ==
    replace_midnight(current_date - timedelta(i * DaysPerWeek, 0, 0, 0))

start_of_week(current_date, i) ==
    replace_midnight(current_date
                     - timedelta(weekday(current_date) + (i * DaysPerWeek), 0, 0, 0))

\* a week that ends seven whole days after its start
end_of_week_next_monday(start) == start + timedelta(7, 0, 0, 0)

end_of_week(start) == start + timedelta(6, 23, 59, 59)

\* the num_weeks weeks before the week of the reference date
calculate_past_weeks(current_date, num_weeks) ==
    [i \in 1..num_weeks |->
        [start_date |-> start_of_week(current_date, i),
         end_date   |-> end_of_week(start_of_week(current_date, i))]]

calculate_working_weeks(current_date, num_weeks) ==
    [i \in 1..num_weeks |->
        [start_date |-> start_of_week(current_date, i - 1),
         end_date   |-> end_of_week(start_of_week(current_date, i - 1))]]

\* ------------------------------------------------------------ dict helpers
EmptyDict == << >>

Get(d, k, default) == IF k \in DOMAIN d THEN d[k] ELSE default

\* d[k] += v on a defaultdict(float)
AddTo(d, k, v) ==
    IF k \in DOMAIN d THEN [d EXCEPT ![k] = @ + v] ELSE d @@ (k :> v)

\* d[k] = v on a dict
SetItem(d, k, v) ==
    IF k \in DOMAIN d THEN [d EXCEPT ![k] = v] ELSE d @@ (k :> v)

\* the position of key k in an insertion-ordered dict (0 when absent)
IndexOfKey(items, k) ==
    IF \E i \in 1..Len(items) : items[i].key = k
    THEN CHOOSE i \in 1..Len(items) : items[i].key = k
    ELSE 0

\* defaultdict(list): d[k].append(v), the key is created on its first append
AppendTo(items, k, v) ==
    IF IndexOfKey(items, k) = 0
    THEN Append(items, [key |-> k, value |-> <<v>>])
    ELSE [items EXCEPT ![IndexOfKey(items, k)].value = Append(@, v)]

RECURSIVE Concat(_)
Concat(seqs) ==
    IF seqs = << >> THEN << >> ELSE Head(seqs) \o Concat(Tail(seqs))

\* ------------------------------------------------------------ the tracker
\* What the issue fetch of one window can return: both queries end in
\* "ORDER BY updated DESC", so every window's issues come in the one order the
\* tracker holds them in, each of them there or not.
TrackerOrder == <<"X-1", "X-2">>

RECURSIVE SubSequences(_)
SubSequences(s) ==
    IF s = << >> THEN {<< >>}
    ELSE LET rest == SubSequences(Tail(s))
         IN  rest \cup {<<Head(s)>> \o r : r \in rest}

IssueLists == SubSequences(TrackerOrder)

\* The dates a work log can carry: the Sunday before the current week (in the
\* second window, or before every window), the Sunday of the current week (the
\* last day of the first window) and the Monday after it (after every window).
WorklogDays == {BaseDay - 1, BaseDay + 6}

RawWorklogs ==
    {[author |-> a, started |-> d, timeSpentSeconds |-> TimeSpent[a]] :
        a \in Authors, d \in WorklogDays}

WorklogLists == UNION {[1..n -> RawWorklogs] : n \in 0..MaxLogs}

\* A 'started' whose first ten characters are no YYYY-MM-DD date: no day
\* number stands for it.
Malformed == -1

MalformedWorklogs ==
    {[author |-> "alice", started |-> Malformed, timeSpentSeconds |-> TimeSpent["alice"]]}

\* the exceptions a call of the tracker client can end with
TrackerErrors == {"JIRAError", "ConnectionError"}

\* the assignee of an issue: alice or nobody
Assignees == {"alice", NoAssignee}

\* datetime.now(): the Wednesday noon and the last second of the Sunday of the
\* week that starts on BaseDay.
NowChoices ==
    {timedelta(BaseDay + 2, 12, 0, 0), timedelta(BaseDay + 6, 23, 59, 59)}

\* ------------------------------------------------- collect_project_data
week_name(week_idx, date_start, date_end) ==
    <<"Week", week_idx + 1, date(date_start), date(date_end)>>

hours_of(seconds) == seconds

\* the assignee taken as it comes, no label for a missing one
extract_issue_data_no_label(key, assignee, timeoriginalestimate) ==
    [key |-> key,
     assignee |-> assignee,
     original_estimate_seconds |-> timeoriginalestimate,
     original_estimate_hours |-> hours_of(timeoriginalestimate)]

extract_issue_data(key, assignee, timeoriginalestimate) ==
    [key |-> key,
     assignee |-> IF assignee = NoAssignee THEN Unassigned ELSE assignee,
     original_estimate_seconds |-> timeoriginalestimate,
     original_estimate_hours |-> hours_of(timeoriginalestimate)]

extract_worklog_data(worklog, issue_key) ==
    [issue_key |-> issue_key,
     author |-> worklog.author,
     date |-> worklog.started,
     seconds |-> worklog.timeSpentSeconds,
     hours |-> hours_of(worklog.timeSpentSeconds)]

\* worklog_date <= date_end.date() alone
in_period_no_start(worklog_date, date_start, date_end) ==
    worklog_date <= date(date_end)

\* date_start.date() <= worklog_date <= date_end.date()
in_period(worklog_date, date_start, date_end) ==
    date(date_start) <= worklog_date /\ worklog_date <= date(date_end)

\* the unparsable date is let through
strptime_lenient(date_string) == FALSE

\* datetime.strptime(date_string, '%Y-%m-%d') raises ValueError
strptime_raises(date_string) == date_string = Malformed

\* "raise Exception(...)" in the place of the bare "raise"
reraise_wrapped(e) == "Exception"

\* "except Exception as e: ...; raise": the exception caught is raised again
reraise(e) == e

\* the issues of the window that were not processed before
issues_count_new(data, found) ==
    Len(SelectSeq(found, LAMBDA key : key \notin DOMAIN data.all_issues))

\* line 104: issues_count = len(issues)
issues_count(data, found) == Len(found)

\* only the issues without work log are taken for already processed
processed_without_worklog(data, key) ==
    \E t \in 1..Len(data.tasks_without_worklog) : data.tasks_without_worklog[t].key = key

\* no issue is taken for already processed
never_processed(data, key) == FALSE

\* "if issue.key in project_data['all_issues']: continue"
already_processed(data, key) == key \in DOMAIN data.all_issues

empty_project_data ==
    [weeks_info |-> << >>,
     all_issues |-> EmptyDict,
     all_worklogs |-> << >>,
     users_hours |-> EmptyDict,
     tasks_without_worklog |-> << >>]

\* the body of "for worklog in worklogs" (lines 131-140), worklog by worklog
RECURSIVE record_worklogs(_, _, _, _, _)
record_worklogs(data, key, worklogs, date_start, date_end) ==
    IF worklogs = << >> THEN data
    ELSE LET worklog_data == extract_worklog_data(Head(worklogs), key)
             counted == in_period(worklog_data.date, date_start, date_end)
             next ==
                [data EXCEPT
                    !.all_worklogs = AppendTo(@, key, worklog_data),
                    !.users_hours =
                        IF counted
                        THEN AddTo(@, worklog_data.author, worklog_data.hours)
                        ELSE @]
         IN  record_worklogs(next, key, Tail(worklogs), date_start, date_end)

\* the issue is put on the no-log list whether it has work logs or not
record_issue_always_listed(data, name, key, assignee, estimate, worklogs, date_start, date_end) ==
    LET issue_data == extract_issue_data(key, assignee, estimate)
        with_issue ==
            [data EXCEPT
                !.all_issues = SetItem(@, key, issue_data),
                !.tasks_without_worklog =
                    Append(@, [week |-> name,
                               key |-> key,
                               assignee |-> issue_data.assignee,
                               estimated_hours |-> issue_data.original_estimate_hours])]
    IN  record_worklogs(with_issue, key, worklogs, date_start, date_end)

\* the body of "for issue in issues" for an issue not seen before (113-140)
record_issue(data, name, key, assignee, estimate, worklogs, date_start, date_end) ==
    LET issue_data == extract_issue_data(key, assignee, estimate)
        with_issue == [data EXCEPT !.all_issues = SetItem(@, key, issue_data)]
    IN  IF worklogs = << >>
        THEN [with_issue EXCEPT
                !.tasks_without_worklog =
                    Append(@, [week |-> name,
                               key |-> key,
                               assignee |-> issue_data.assignee,
                               estimated_hours |-> issue_data.original_estimate_hours])]
        ELSE record_worklogs(with_issue, key, worklogs, date_start, date_end)

all_entries(data) ==
    Concat([i \in 1..Len(data.all_worklogs) |-> data.all_worklogs[i].value])

\* ------------------------------------------------- _create_weekly_stats
VARIABLES
    weekly_stats    \* the result of analyze_project, items in insertion order

\* lines 66-73: the work logs of the week, issue by issue, an issue getting a
\* key at its first work log of the week
week_worklogs(data, week_info) ==
    LET in_week(worklog) ==
            in_period(worklog.date, week_info.start_date, week_info.end_date)
        of_week(item) == [key |-> item.key, value |-> SelectSeq(item.value, in_week)]
        some(item) == item.value # << >>
    IN  SelectSeq([i \in 1..Len(data.all_worklogs) |-> of_week(data.all_worklogs[i])],
                  some)

\* week_users_hours[worklog['author']] = worklog['hours']
RECURSIVE week_users_hours_last(_, _, _)
week_users_hours_last(entries, week_info, acc) ==
    IF entries = << >> THEN acc
    ELSE LET worklog == Head(entries)
         IN  week_users_hours_last(
                Tail(entries), week_info,
                IF /\ date(week_info.start_date) <= worklog.date
                   /\ worklog.date <= date(week_info.end_date)
                THEN SetItem(acc, worklog.author, worklog.hours)
                ELSE acc)

\* lines 63-73: week_users_hours[worklog['author']] += worklog['hours']
RECURSIVE week_users_hours(_, _, _)
week_users_hours(entries, week_info, acc) ==
    IF entries = << >> THEN acc
    ELSE LET worklog == Head(entries)
         IN  week_users_hours(
                Tail(entries), week_info,
                IF in_period(worklog.date, week_info.start_date, week_info.end_date)
                THEN AddTo(acc, worklog.author, worklog.hours)
                ELSE acc)

\* the tasks of the week that have an estimate
week_estimated_tasks(data, name) ==
    LET of_week(task) == task.week = name /\ task.estimated_hours # 0
    IN  SelectSeq(data.tasks_without_worklog, of_week)

\* lines 76-79
week_tasks_without_worklog(data, name) ==
    LET of_week(task) == task.week = name
    IN  SelectSeq(data.tasks_without_worklog, of_week)

\* no "if task['estimated_hours']": a zero estimate makes a key too
RECURSIVE estimated_hours_any(_, _)
estimated_hours_any(tasks, acc) ==
    IF tasks = << >> THEN acc
    ELSE estimated_hours_any(
            Tail(tasks), AddTo(acc, Head(tasks).assignee, Head(tasks).estimated_hours))

\* estimated_hours[task['assignee']] = task['estimated_hours']
RECURSIVE estimated_hours_last(_, _)
estimated_hours_last(tasks, acc) ==
    IF tasks = << >> THEN acc
    ELSE LET task == Head(tasks)
         IN  estimated_hours_last(
                Tail(tasks),
                IF task.estimated_hours # 0
                THEN SetItem(acc, task.assignee, task.estimated_hours)
                ELSE acc)

\* lines 82-85: estimated_hours[task['assignee']] += task['estimated_hours'],
\* for the tasks whose estimate is truthy
RECURSIVE estimated_hours(_, _)
estimated_hours(tasks, acc) ==
    IF tasks = << >> THEN acc
    ELSE LET task == Head(tasks)
         IN  estimated_hours(
                Tail(tasks),
                IF task.estimated_hours # 0
                THEN AddTo(acc, task.assignee, task.estimated_hours)
                ELSE acc)

\* total_worked_hours[user] = hours, the hours already logged forgotten
total_worked_hours_overwritten(worked, estimated) ==
    [user \in DOMAIN worked \cup DOMAIN estimated |->
        IF user \in DOMAIN estimated THEN estimated[user] ELSE worked[user]]

\* lines 88-90: the copy of week_users_hours, each estimate added to it
total_worked_hours(worked, estimated) ==
    [user \in DOMAIN worked \cup DOMAIN estimated |->
        IF user \in DOMAIN estimated
        THEN Get(worked, user, 0) + estimated[user]
        ELSE worked[user]]

\* the hours of the first week of the result returned before
kept_week_users_hours ==
    IF weekly_stats = << >> THEN EmptyDict ELSE weekly_stats[1].value.worked_hours

\* line 63: week_users_hours = defaultdict(float), a new one for every week
new_week_users_hours == EmptyDict

\* lines 60-102, one week
week_stats(data, name, week_info) ==
    LET worked == week_users_hours(all_entries(data), week_info, new_week_users_hours)
        tasks == week_tasks_without_worklog(data, name)
        estimated == estimated_hours(tasks, EmptyDict)
    IN  [worked_hours |-> worked,
         estimated_as_worked_hours |-> estimated,
         total_worked_hours |-> total_worked_hours(worked, estimated),
         tasks_without_worklog |-> tasks,
         total_issues |-> week_info.issues_count,
         worklogs |-> week_worklogs(data, week_info),
         start_date |-> week_info.start_date,
         end_date |-> week_info.end_date]

create_weekly_stats(data) ==
    [i \in 1..Len(data.weeks_info) |->
        [key |-> data.weeks_info[i].key,
         value |-> week_stats(data, data.weeks_info[i].key, data.weeks_info[i].value)]]

\* analyze_project, lines 25-30: weekly_stats['_full_data'] = project_data
with_full_data(stats, data) == Append(stats, [key |-> FullDataKey, value |-> data])

\* ------------------------------------------------------------ the reports
\* no key is skipped
every_key_is_week(name) == TRUE

\* "if week_name != '_full_data'"
is_week(name) == name # FullDataKey

week_items(stats) ==
    LET kept(item) == is_week(item.key)
    IN  SelectSeq(stats, kept)

\* d[field] raises KeyError on one of the items
key_error(items, field) ==
    \E i \in 1..Len(items) : field \notin DOMAIN items[i].value

RECURSIVE SumSeq(_)
SumSeq(s) == IF s = << >> THEN 0 ELSE Head(s) + SumSeq(Tail(s))

\* round(x, 2) of x = seconds/3600 hours, in hundredths of an hour (half to even)
round2(seconds) ==
    LET q == seconds \div 36
        r == seconds % 36
    IN  IF r < 18 THEN q
        ELSE IF r > 18 THEN q + 1
        ELSE IF q % 2 = 0 THEN q ELSE q + 1

\* create_hours_report, lines 164-167
hours_report_users(items) ==
    UNION {DOMAIN items[i].value.worked_hours : i \in 1..Len(items)}

\* lines 173-178: the column of a week, an author without hours getting 0.0
hours_report_cell(week_data, user) == Get(week_data.worked_hours, user, 0)

hours_report_cells(items, user) ==
    [i \in 1..Len(items) |-> hours_report_cell(items[i].value, user)]

\* line 180: df['Vsego chasov'] = df.sum(axis=1)
hours_report_total(items, user) == SumSeq(hours_report_cells(items, user))

\* sort_values('Vsego chasov') with the default ascending=True
sorted_by_total_ascending(items, order) ==
    \A i \in 1..(Len(order) - 1) :
        hours_report_total(items, order[i]) <= hours_report_total(items, order[i + 1])

\* line 181: sort_values('Vsego chasov', ascending=False)
sorted_by_total(items, order) ==
    \A i \in 1..(Len(order) - 1) :
        hours_report_total(items, order[i]) >= hours_report_total(items, order[i + 1])

\* The orders sort_values can leave the rows in: the index is built from a
\* set and the sort is not stable, so rows of equal total come in any order.
row_orders(items) ==
    LET users == hours_report_users(items)
    IN  {order \in [1..Cardinality(users) -> users] :
            /\ \A u \in users : \E i \in 1..Len(order) : order[i] = u
            /\ sorted_by_total(items, order)}

\* lines 182-183: round(2), then df.loc['Vsego'] = df.sum()
hours_report_rows(items, order) ==
    LET row(user) ==
            [name |-> user,
             cells |-> [i \in 1..Len(items) |-> round2(hours_report_cells(items, user)[i])],
             total |-> round2(hours_report_total(items, user))]
        rows == [j \in 1..Len(order) |-> row(order[j])]
        sums == [name |-> TotalLabel,
                 cells |-> [i \in 1..Len(items) |->
                               SumSeq([j \in 1..Len(rows) |-> rows[j].cells[i]])],
                 total |-> SumSeq([j \in 1..Len(rows) |-> rows[j].total])]
    IN  Append(rows, sums)

create_hours_report(stats, order) ==
    LET items == week_items(stats)
    IN  [kind |-> "hours",
         error |-> "",
         columns |-> [i \in 1..Len(items) |-> items[i].key],
         rows |-> hours_report_rows(items, order)]

\* create_no_worklog_report, lines 189-194
create_no_worklog_report(stats) ==
    LET items == week_items(stats)
    IN  IF key_error(items, "tasks_without_worklog")
        THEN [kind |-> "no_worklog", error |-> "KeyError"]
        ELSE [kind |-> "no_worklog",
              error |-> "",
              rows |-> Concat([i \in 1..Len(items) |->
                                  items[i].value.tasks_without_worklog])]

\* create_tasks_count_report, line 198
create_tasks_count_report(stats) ==
    LET items == week_items(stats)
    IN  IF key_error(items, "total_issues")
        THEN [kind |-> "tasks_count", error |-> "KeyError"]
        ELSE [kind |-> "tasks_count",
              error |-> "",
              counts |-> [i \in 1..Len(items) |->
                            [key |-> items[i].key, value |-> items[i].value.total_issues]]]

\* no seen_keys test
unique_tasks_all(tasks, acc) == acc \o tasks

\* _get_unique_no_worklog_tasks, bot_service.py lines 544-553: every value of
\* weekly_stats that has a 'tasks_without_worklog' key is walked
RECURSIVE unique_tasks(_, _)
unique_tasks(tasks, acc) ==
    IF tasks = << >> THEN acc
    ELSE unique_tasks(
            Tail(tasks),
            IF \E i \in 1..Len(acc) : acc[i].key = Head(tasks).key
            THEN acc
            ELSE Append(acc, Head(tasks)))

get_unique_no_worklog_tasks(stats) ==
    LET has_tasks(item) == "tasks_without_worklog" \in DOMAIN item.value
        items == SelectSeq(stats, has_tasks)
    IN  [kind |-> "unique_no_worklog",
         error |-> "",
         rows |-> unique_tasks(
                     Concat([i \in 1..Len(items) |-> items[i].value.tasks_without_worklog]),
                     << >>)]

\* ------------------------------------- web_app.prepare_stats_for_webapp
\* lines 212-214: the users of every value of weekly_stats, none skipped
webapp_users(stats) ==
    UNION {DOMAIN stats[i].value.total_worked_hours : i \in 1..Len(stats)}

\* lines 218-228: the row of a user, a cell per key of weekly_stats
webapp_row(stats, user) ==
    LET hours == [i \in 1..Len(stats) |-> Get(stats[i].value.total_worked_hours, user, 0)]
    IN  [name |-> user,
         cells |-> [i \in 1..Len(stats) |-> round2(hours[i])],
         total |-> round2(SumSeq(hours))]

\* line 231: hours_table.sort(key=total, reverse=True), the rows coming from
\* a set in any order
webapp_row_orders(stats) ==
    LET users == webapp_users(stats)
    IN  {order \in [1..Cardinality(users) -> users] :
            /\ \A u \in users : \E i \in 1..Len(order) : order[i] = u
            /\ \A i \in 1..(Len(order) - 1) :
                  webapp_row(stats, order[i]).total >= webapp_row(stats, order[i + 1]).total}

\* lines 209-249
prepare_stats_for_webapp(stats, order) ==
    [kind |-> "webapp",
     error |-> "",
     hours_table |-> [j \in 1..Len(order) |-> webapp_row(stats, order[j])],
     no_worklog_tasks |-> Concat([i \in 1..Len(stats) |->
                                    stats[i].value.tasks_without_worklog]),
     tasks_count |-> [i \in 1..Len(stats) |->
                        [key |-> stats[i].key, value |-> stats[i].value.total_issues]],
     weeks |-> [i \in 1..Len(stats) |-> stats[i].key]]

\* ------------------------------------------------- get_user_tasks_details
\* the work log is taken whatever its date
in_any_period_always(worklog_date, periods) == TRUE

\* lines 222-226: the date lies in one of the periods
in_any_period(worklog_date, periods) ==
    \E p \in 1..Len(periods) :
        in_period(worklog_date, periods[p].start_date, periods[p].end_date)

\* lines 206-210: the periods of the analysis, from weeks_info
analysis_periods(data) ==
    [i \in 1..Len(data.weeks_info) |->
        [start_date |-> data.weeks_info[i].value.start_date,
         end_date |-> data.weeks_info[i].value.end_date]]

\* lines 213-244: the issues with work logs of the user inside the periods
logged_user_tasks(data, user) ==
    LET periods == analysis_periods(data)
        of_user(worklog) ==
            worklog.author = user /\ in_any_period(worklog.date, periods)
        user_worklogs(item) == SelectSeq(item.value, of_user)
        task(item) ==
            [key |-> item.key,
             hours |-> SumSeq([j \in 1..Len(user_worklogs(item)) |->
                                  user_worklogs(item)[j].hours]),
             estimated |-> FALSE]
        kept(item) == user_worklogs(item) # << >> /\ item.key \in DOMAIN data.all_issues
        items == SelectSeq(data.all_worklogs, kept)
    IN  [i \in 1..Len(items) |-> task(items[i])]

\* lines 247-255: the no-log tasks of the user whose key is not yet listed
RECURSIVE add_no_log_tasks(_, _, _)
add_no_log_tasks(user_tasks, tasks, user) ==
    IF tasks = << >> THEN user_tasks
    ELSE LET task == Head(tasks)
             listed == \E i \in 1..Len(user_tasks) : user_tasks[i].key = task.key
         IN  add_no_log_tasks(
                IF task.assignee = user /\ ~listed
                THEN Append(user_tasks, [key |-> task.key,
                                         hours |-> task.estimated_hours,
                                         estimated |-> TRUE])
                ELSE user_tasks,
                Tail(tasks), user)

\* the task goes before the tasks of the same hours
insert_before_equal(sorted, task) ==
    LET more == {i \in 1..Len(sorted) : sorted[i].hours > task.hours}
        n == Cardinality(more)
    IN  SubSeq(sorted, 1, n) \o <<task>> \o SubSeq(sorted, n + 1, Len(sorted))

\* sorted(..., reverse=True) is stable: a task goes after the tasks already
\* placed that have at least its hours
insert_by_hours(sorted, task) ==
    LET ahead == {i \in 1..Len(sorted) : sorted[i].hours >= task.hours}
        n == Cardinality(ahead)
    IN  SubSeq(sorted, 1, n) \o <<task>> \o SubSeq(sorted, n + 1, Len(sorted))

\* lines 257, 276: sorted(user_tasks, key=hours, reverse=True)
RECURSIVE sorted_by_hours(_, _)
sorted_by_hours(tasks, sorted) ==
    IF tasks = << >> THEN sorted
    ELSE sorted_by_hours(Tail(tasks), insert_by_hours(sorted, Head(tasks)))

\* lines 260-276: without the bundle the no-log tasks are read by the keys
\* 'Pol'zovatel'', 'Zadacha', ..., which no task of the analysis has
fallback_user_tasks(stats, user) ==
    LET items == week_items(stats)
        tasks == Concat([i \in 1..Len(items) |-> items[i].value.tasks_without_worklog])
    IN  IF tasks # << >>
        THEN [kind |-> "user_tasks", error |-> "KeyError", user |-> user]
        ELSE [kind |-> "user_tasks", error |-> "", user |-> user, rows |-> << >>]

get_user_tasks_details(stats, user) ==
    LET full == {i \in 1..Len(stats) : stats[i].key = FullDataKey}
    IN  IF full # {}
        THEN LET data == stats[CHOOSE i \in full : TRUE].value
                 user_tasks == add_no_log_tasks(logged_user_tasks(data, user),
                                                data.tasks_without_worklog, user)
             IN  [kind |-> "user_tasks",
                  error |-> "",
                  user |-> user,
                  rows |-> sorted_by_hours(user_tasks, << >>)]
        ELSE fallback_user_tasks(stats, user)

VARIABLES
    current_date,   \* the current_date argument of calculate_working_weeks
    weeks_count,    \* the weeks_count argument
    pc,             \* where the analysis stands
    weeks,          \* the result of calculate_working_weeks
    week_idx,       \* the number of windows whose issue fetch was made
    issues,         \* the issues of the current window not yet looked at
    fetched,        \* what each window's issue fetch returned (history)
    returned,       \* what each get_worklogs call returned (history)
    project_data,   \* the bundle collect_project_data builds
    report,         \* the last report derived from weekly_stats
    microsecond,    \* the microsecond of the current_date argument
    raised,         \* the exception that reached the caller of analyze_project
    calls,          \* every call made to the tracker client (history)
    pair,           \* two analyze_project calls in flight on one service
    current_week,   \* one analyze_current_week call: its position, clocks, result
    storage,        \* the two settings files of StorageService and the last load
    bot             \* the bot's user_settings and the last update it handled

vars == <<current_date, weeks_count, pc, weeks, week_idx, issues, fetched,
          returned, project_data, weekly_stats, report, microsecond, raised,
          calls, pair, current_week, storage, bot>>

NoReport == [kind |-> "none", error |-> ""]

Init ==
    /\ current_date = 0
    /\ weeks_count = 0
    /\ pc = "idle"
    /\ weeks = << >>
    /\ week_idx = 0
    /\ issues = << >>
    /\ fetched = << >>
    /\ returned = << >>
    /\ project_data = empty_project_data
    /\ weekly_stats = << >>
    /\ report = NoReport
    /\ microsecond = 0
    /\ raised = ""
    /\ calls = << >>
    /\ pair = << >>
    /\ current_week = << >>
    /\ storage = << >>
    /\ bot = << >>

\* a call of the tracker client: the issue fetch of a window, the work-log
\* fetch of an issue
search_call(window, error) ==
    [op |-> "search", window |-> window, key |-> "", error |-> error, worklogs |-> << >>]

worklogs_call(key, error, worklogs) ==
    [op |-> "worklogs", window |-> 0, key |-> key, error |-> error, worklogs |-> worklogs]

\* jira_service.py lines 144-146 and analytics_service.py lines 31-33: the
\* exception is logged and raised again, by collect_project_data and then by
\* analyze_project; the frame of collect_project_data is gone with its bundle,
\* and nothing is returned
Raise(e) ==
    /\ raised' = reraise(reraise(e))
    /\ pc' = "raised"
    /\ project_data' = empty_project_data
    /\ issues' = << >>
    /\ UNCHANGED <<weekly_stats, report>>

\* analyze_project -> collect_project_data, lines 76-85
StartCollect ==
    /\ pc = "idle"
    /\ \E n \in 1..MaxWeeks, today \in NowChoices :
          /\ weeks_count' = n
          /\ weeks' = calculate_working_weeks(today, n)
    /\ project_data' = empty_project_data
    /\ pc' = "collect"
    /\ UNCHANGED <<current_week, storage, bot, microsecond, pair, raised, calls, current_date, week_idx, issues, fetched, returned, weekly_stats, report>>

\* one turn of "for week_idx, (date_start, date_end) in enumerate(weeks)" up
\* to the issue fetch, lines 88-104
FetchIssues ==
    /\ pc = "collect"
    /\ issues = << >>
    /\ week_idx < Len(weeks)
    /\ \E found \in IssueLists :
          /\ LET w == weeks[week_idx + 1]
                 name == week_name(week_idx, w.start_date, w.end_date)
             IN  project_data' =
                    [project_data EXCEPT
                        !.weeks_info =
                            Append(@, [key |-> name,
                                       value |-> [start_date |-> w.start_date,
                                                  end_date |-> w.end_date,
                                                  issues_count |->
                                                      issues_count(project_data, found)]])]
          /\ issues' = found
          /\ fetched' = Append(fetched, found)
    /\ calls' = Append(calls, search_call(week_idx + 1, ""))
    /\ week_idx' = week_idx + 1
    /\ UNCHANGED <<current_week, storage, bot, microsecond, pair, raised, current_date, weeks_count, pc, weeks, returned, weekly_stats, report>>

\* lines 109-110
SkipIssue ==
    /\ pc = "collect"
    /\ issues # << >>
    /\ already_processed(project_data, Head(issues))
    /\ issues' = Tail(issues)
    /\ UNCHANGED <<current_week, storage, bot, microsecond, pair, raised, calls, current_date, weeks_count, pc, weeks, week_idx, fetched, returned,
                   project_data, weekly_stats, report>>

logs_count(data) == Len(all_entries(data))

\* What the tracker can hold for an issue seen for the first time: its
\* assignee, its original estimate and its work logs, the work logs within what
\* is left of MaxLogs.  The assignee and the estimate of an issue are read
\* again only when it has no work log, so an issue with work logs is taken
\* without either.
IssueInputs(logs_left) ==
    {in \in [assignee : Assignees, estimate : EstimateSeconds, worklogs : WorklogLists] :
        /\ Len(in.worklogs) <= logs_left
        /\ in.worklogs # << >> => in.assignee = NoAssignee /\ in.estimate = 0}

\* lines 113-140
ProcessIssue ==
    /\ pc = "collect"
    /\ issues # << >>
    /\ ~already_processed(project_data, Head(issues))
    /\ \E in \in IssueInputs(MaxLogs - logs_count(project_data)) :
          LET w == weeks[week_idx]
              name == week_name(week_idx - 1, w.start_date, w.end_date)
          IN  /\ project_data' =
                    record_issue(project_data, name, Head(issues), in.assignee,
                                 in.estimate, in.worklogs, w.start_date, w.end_date)
              /\ returned' = Append(returned, [key |-> Head(issues),
                                               worklogs |-> in.worklogs,
                                               assignee |-> in.assignee,
                                               estimate |-> in.estimate])
              /\ calls' = Append(calls, worklogs_call(Head(issues), "", in.worklogs))
    /\ issues' = Tail(issues)
    /\ UNCHANGED <<current_week, storage, bot, microsecond, pair, raised, current_date, weeks_count, pc, weeks, week_idx, fetched, weekly_stats,
                   report>>

\* lines 98-102: the issue fetch of the window fails
FetchIssuesFails ==
    /\ pc = "collect"
    /\ issues = << >>
    /\ week_idx < Len(weeks)
    /\ \E e \in TrackerErrors :
          /\ calls' = Append(calls, search_call(week_idx + 1, e))
          /\ Raise(e)
    /\ week_idx' = week_idx + 1
    /\ UNCHANGED <<current_week, storage, bot, microsecond, pair, current_date, weeks_count, weeks, fetched, returned>>

\* line 117: the work-log fetch of an issue not seen before fails
GetWorklogsFails ==
    /\ pc = "collect"
    /\ issues # << >>
    /\ ~already_processed(project_data, Head(issues))
    /\ \E e \in TrackerErrors :
          /\ calls' = Append(calls, worklogs_call(Head(issues), e, << >>))
          /\ Raise(e)
    /\ UNCHANGED <<current_week, storage, bot, microsecond, pair, current_date, weeks_count, weeks, week_idx, fetched,
                   returned>>

\* the work logs of an issue, one of them at least with a malformed 'started'
MalformedWorklogLists(logs_left) ==
    {l \in UNION {[1..n -> RawWorklogs \cup MalformedWorklogs] : n \in 1..logs_left} :
        \E j \in 1..Len(l) : l[j] \in MalformedWorklogs}

\* lines 113-140 for an issue with such a work log: strptime of line 133
\* raises at the first of them
ProcessMalformedIssue ==
    /\ pc = "collect"
    /\ issues # << >>
    /\ ~already_processed(project_data, Head(issues))
    /\ \E worklogs \in MalformedWorklogLists(MaxLogs - logs_count(project_data)) :
          /\ calls' = Append(calls, worklogs_call(Head(issues), "", worklogs))
          /\ IF \E j \in 1..Len(worklogs) : strptime_raises(worklogs[j].started)
             THEN /\ Raise("ValueError")
                  /\ UNCHANGED returned
             ELSE LET w == weeks[week_idx]
                      name == week_name(week_idx - 1, w.start_date, w.end_date)
                  IN  /\ project_data' =
                            record_issue(project_data, name, Head(issues), NoAssignee, 0,
                                         worklogs, w.start_date, w.end_date)
                      /\ returned' = Append(returned, [key |-> Head(issues),
                                                       worklogs |-> worklogs,
                                                       assignee |-> NoAssignee,
                                                       estimate |-> 0])
                      /\ issues' = Tail(issues)
                      /\ UNCHANGED <<pc, raised, weekly_stats, report>>
    /\ UNCHANGED <<current_week, storage, bot, microsecond, pair, current_date, weeks_count, weeks, week_idx, fetched>>

\* analyze_project, lines 22-30, once collect_project_data has returned
Analyze ==
    /\ pc = "collect"
    /\ issues = << >>
    /\ week_idx = Len(weeks)
    /\ IF \E i \in 1..Len(all_entries(project_data)) :
             strptime_raises(all_entries(project_data)[i].date)
       THEN Raise("ValueError")
       ELSE /\ weekly_stats' =
                  with_full_data(create_weekly_stats(project_data), project_data)
            /\ pc' = "analyzed"
            /\ UNCHANGED <<raised, project_data, issues, report>>
    /\ UNCHANGED <<current_week, storage, bot, microsecond, pair, calls, current_date, weeks_count, weeks, week_idx,
                   fetched, returned>>

analysis == <<current_week, storage, bot, microsecond, pair, raised, calls, current_date, weeks_count, weeks, week_idx, issues, fetched,
              returned, project_data, weekly_stats>>

\* create_hours_report on the result of analyze_project
HoursReport ==
    /\ pc = "analyzed"
    /\ IF key_error(week_items(weekly_stats), "worked_hours")
       THEN report' = [kind |-> "hours", error |-> "KeyError"]
       ELSE \E order \in row_orders(week_items(weekly_stats)) :
               report' = create_hours_report(weekly_stats, order)
    /\ pc' = "reported"
    /\ UNCHANGED analysis

\* create_no_worklog_report on the result of analyze_project
NoWorklogReport ==
    /\ pc = "analyzed"
    /\ report' = create_no_worklog_report(weekly_stats)
    /\ pc' = "reported"
    /\ UNCHANGED analysis

\* create_tasks_count_report on the result of analyze_project
TasksCountReport ==
    /\ pc = "analyzed"
    /\ report' = create_tasks_count_report(weekly_stats)
    /\ pc' = "reported"
    /\ UNCHANGED analysis

\* _get_unique_no_worklog_tasks on the result of analyze_project
UniqueNoWorklogTasks ==
    /\ pc = "analyzed"
    /\ report' = get_unique_no_worklog_tasks(weekly_stats)
    /\ pc' = "reported"
    /\ UNCHANGED analysis

\* _create_weekly_stats called once more on the project data of the result
CreateWeeklyStatsAgain ==
    /\ pc = "analyzed"
    /\ report' = [kind |-> "weekly_stats",
                  error |-> "",
                  stats |-> create_weekly_stats(project_data)]
    /\ pc' = "reported"
    /\ UNCHANGED analysis

\* get_user_tasks_details on the result of analyze_project, for one user
UserTasksDetails ==
    /\ pc = "analyzed"
    /\ \E user \in Authors : report' = get_user_tasks_details(weekly_stats, user)
    /\ pc' = "reported"
    /\ UNCHANGED analysis

\* get_user_tasks_details on the map _create_weekly_stats returns, before
\* analyze_project attaches the bundle under '_full_data' (lines 25 and 28):
\* the branch of lines 259-276 runs
UserTasksDetailsFallback ==
    /\ pc = "analyzed"
    /\ \E user \in Authors :
          report' = [get_user_tasks_details(week_items(weekly_stats), user)
                        EXCEPT !.kind = "user_tasks_fallback"]
    /\ pc' = "reported"
    /\ UNCHANGED analysis

\* web_app.get_stats, lines 84-95: prepare_stats_for_webapp on the result of
\* analyze_project; a KeyError of the derivation is answered with HTTP 500
WebappStats ==
    /\ pc = "analyzed"
    /\ IF \/ key_error(weekly_stats, "total_worked_hours")
          \/ key_error(weekly_stats, "tasks_without_worklog")
          \/ key_error(weekly_stats, "total_issues")
       THEN report' = [kind |-> "webapp", error |-> "KeyError"]
       ELSE \E order \in webapp_row_orders(weekly_stats) :
               report' = prepare_stats_for_webapp(weekly_stats, order)
    /\ pc' = "reported"
    /\ UNCHANGED analysis

Next ==
    \/ StartCollect
    \/ FetchIssues
    \/ SkipIssue
    \/ ProcessIssue
    \/ Analyze
    \/ HoursReport
    \/ NoWorklogReport
    \/ TasksCountReport
    \/ UniqueNoWorklogTasks
    \/ UserTasksDetails
    \/ FetchIssuesFails
    \/ GetWorklogsFails
    \/ ProcessMalformedIssue
    \/ CreateWeeklyStatsAgain
    \/ WebappStats
    \/ UserTasksDetailsFallback

Spec == Init /\ [][Next]_vars

\* ------------------------------------ calculate_working_weeks on its own
\* The reference dates: every day of two weeks, at midnight, at noon and at
\* the last second of the day.
Microseconds == {0, 999999}

ReferenceDates ==
    {timedelta(BaseDay + d, 0, 0, 0) + t :
        d \in 0..(2 * DaysPerWeek - 1),
        t \in {0, timedelta(0, 12, 0, 0), timedelta(0, 23, 59, 59)}}

InitWeeks ==
    /\ current_date \in ReferenceDates
    /\ weeks_count \in 1..MaxWeeks
    /\ pc = "weeks_call"
    /\ weeks = << >>
    /\ week_idx = 0
    /\ issues = << >>
    /\ fetched = << >>
    /\ returned = << >>
    /\ project_data = empty_project_data
    /\ weekly_stats = << >>
    /\ report = NoReport
    /\ microsecond \in Microseconds
    /\ raised = ""
    /\ calls = << >>
    /\ pair = << >>
    /\ current_week = << >>
    /\ storage = << >>
    /\ bot = << >>

\* calculate_working_weeks(current_date, num_weeks)
CalculateWeeks ==
    /\ pc = "weeks_call"
    /\ weeks' = calculate_working_weeks(current_date, weeks_count)
    /\ pc' = "weeks_done"
    /\ UNCHANGED <<current_week, storage, bot, microsecond, pair, raised, calls, current_date, weeks_count, week_idx, issues, fetched, returned,
                   project_data, weekly_stats, report>>

NextWeeks == CalculateWeeks

SpecWeeks == InitWeeks /\ [][NextWeeks]_vars

\* --------------------------- two analyze_project calls on one service
\* The two calls run on one AnalyticsService and one JiraService, each for a
\* project of its own; a step of a call is one call of the tracker client
\* with the statements that follow it, and the steps of the two interleave.
Callers == {1, 2}

\* what the tracker holds for the issues of the project of each call
PairTracker ==
    <<[i \in {"X-1", "X-2"} |->
          IF i = "X-1"
          THEN [assignee |-> NoAssignee, estimate |-> 0,
                worklogs |-> <<[author |-> "alice", started |-> BaseDay,
                                timeSpentSeconds |-> TimeSpent["alice"]]>>]
          ELSE [assignee |-> "alice", estimate |-> 28800, worklogs |-> << >>]],
      [i \in {"X-1", "X-2"} |->
          IF i = "X-1"
          THEN [assignee |-> NoAssignee, estimate |-> 28800, worklogs |-> << >>]
          ELSE [assignee |-> NoAssignee, estimate |-> 0,
                worklogs |-> <<[author |-> "bob", started |-> BaseDay - 1,
                                timeSpentSeconds |-> TimeSpent["bob"]]>>]]>>

\* datetime.now() of both calls: the Wednesday noon of the week of BaseDay
PairNow == timedelta(BaseDay + 2, 12, 0, 0)

\* one bundle for the service, the one of the first call
bundle_of_service(call) == 1

\* jira_service.py lines 79-85: project_data is a local of the call
bundle_of(call) == call

NewCall ==
    [pc |-> "idle", weeks |-> << >>, week_idx |-> 0, issues |-> << >>,
     fetched |-> << >>, project_data |-> empty_project_data,
     weekly_stats |-> << >>, overlapped |-> FALSE]

\* the other call is between its first and its last step
Overlaps(c) == \E d \in Callers \ {c} : pair[d].pc = "collect"

\* the step of call c: its own position, and the bundle it works on
PairStep(c, call, data) ==
    pair' = [[pair EXCEPT ![c] = [call EXCEPT !.overlapped = @ \/ Overlaps(c)]]
                EXCEPT ![bundle_of(c)].project_data = data]

InitPair ==
    /\ current_date = PairNow
    /\ weeks_count = 0
    /\ pc = "pair"
    /\ weeks = << >>
    /\ week_idx = 0
    /\ issues = << >>
    /\ fetched = << >>
    /\ returned = << >>
    /\ project_data = empty_project_data
    /\ weekly_stats = << >>
    /\ report = NoReport
    /\ microsecond = 0
    /\ raised = ""
    /\ calls = << >>
    /\ pair = [c \in Callers |-> NewCall]
    /\ current_week = << >>
    /\ storage = << >>
    /\ bot = << >>

outside_current_week ==
    <<current_date, weeks_count, pc, weeks, week_idx, issues, fetched, returned,
      project_data, weekly_stats, report, microsecond, raised, calls, storage, bot>>

outside_storage ==
    <<current_date, weeks_count, pc, weeks, week_idx, issues, fetched, returned,
      project_data, weekly_stats, report, microsecond, raised, calls, pair,
      current_week, bot>>

single == <<current_date, weeks_count, pc, weeks, week_idx, issues, fetched,
            returned, project_data, weekly_stats, report, microsecond, raised, calls,
            current_week, storage, bot>>

\* lines 76-85
PairStartCollect(c) ==
    /\ pair[c].pc = "idle"
    /\ \E n \in 1..MaxWeeks :
          PairStep(c, [pair[c] EXCEPT !.pc = "collect",
                                      !.weeks = calculate_working_weeks(current_date, n)],
                   empty_project_data)
    /\ UNCHANGED single

\* lines 88-104
PairFetchIssues(c) ==
    /\ pair[c].pc = "collect"
    /\ pair[c].issues = << >>
    /\ pair[c].week_idx < Len(pair[c].weeks)
    /\ \E found \in IssueLists :
          LET w == pair[c].weeks[pair[c].week_idx + 1]
              name == week_name(pair[c].week_idx, w.start_date, w.end_date)
              data == pair[bundle_of(c)].project_data
          IN  PairStep(c, [pair[c] EXCEPT !.issues = found,
                                          !.fetched = Append(@, found),
                                          !.week_idx = @ + 1],
                       [data EXCEPT
                           !.weeks_info =
                               Append(@, [key |-> name,
                                          value |-> [start_date |-> w.start_date,
                                                     end_date |-> w.end_date,
                                                     issues_count |->
                                                         issues_count(data, found)]])])
    /\ UNCHANGED single

\* lines 107-140, one issue of the window
PairIssue(c) ==
    /\ pair[c].pc = "collect"
    /\ pair[c].issues # << >>
    /\ LET key == Head(pair[c].issues)
           data == pair[bundle_of(c)].project_data
           w == pair[c].weeks[pair[c].week_idx]
           name == week_name(pair[c].week_idx - 1, w.start_date, w.end_date)
           in == PairTracker[c][key]
       IN  PairStep(c, [pair[c] EXCEPT !.issues = Tail(@)],
                    IF already_processed(data, key)
                    THEN data
                    ELSE record_issue(data, name, key, in.assignee, in.estimate,
                                      in.worklogs, w.start_date, w.end_date))
    /\ UNCHANGED single

\* analytics_service.py lines 22-30
PairAnalyze(c) ==
    /\ pair[c].pc = "collect"
    /\ pair[c].issues = << >>
    /\ pair[c].week_idx = Len(pair[c].weeks)
    /\ LET data == pair[bundle_of(c)].project_data
       IN  PairStep(c, [pair[c] EXCEPT
                           !.pc = "done",
                           !.weekly_stats = with_full_data(create_weekly_stats(data), data)],
                    data)
    /\ UNCHANGED single

NextPair ==
    \E c \in Callers :
        \/ PairStartCollect(c)
        \/ PairFetchIssues(c)
        \/ PairIssue(c)
        \/ PairAnalyze(c)

SpecPair == InitPair /\ [][NextPair]_vars

\* ------------------------------------------------- analyze_current_week
\* None, where a 'YYYY-MM-DD' string is expected
NoDate == -2

\* the dates of the work logs the tracker holds for the current-week query:
\* the Sunday before the week that starts on BaseDay, its Monday, its Tuesday
CurrentWeekDays == {BaseDay - 1, BaseDay, BaseDay + 1}

CurrentWeekWorklogs ==
    {[author |-> a, started |-> d, timeSpentSeconds |-> TimeSpent[a]] :
        a \in Authors, d \in CurrentWeekDays}

CurrentWeekWorklogLists == UNION {[1..n -> CurrentWeekWorklogs] : n \in 0..MaxLogs}

\* what search_issues and the worklogs calls return: the issues in the
\* tracker's order, each with its work logs
CurrentWeekTracker ==
    {[i \in 1..Len(keys) |-> [key |-> keys[i], worklogs |-> logs[i]]] :
        keys \in IssueLists, logs \in [1..Len(TrackerOrder) -> CurrentWeekWorklogLists]}

TrackerLogsCount(tracker) ==
    SumSeq([i \in 1..Len(tracker) |-> Len(tracker[i].worklogs)])

\* jira_service.py lines 228-244: the work logs of one issue that are dated
\* inside the week and written by the user
week_worklogs_of_issue(issue, start_of_week_, end_of_week_, username) ==
    LET kept == SelectSeq(issue.worklogs,
                    LAMBDA w : /\ date(start_of_week_) <= w.started
                               /\ w.started <= date(end_of_week_)
                               /\ w.author = username)
    IN  [j \in 1..Len(kept) |->
            [issue_key |-> issue.key,
             date |-> kept[j].started,
             time_spent_hours |-> hours_of(kept[j].timeSpentSeconds)]]

\* jira_service.py lines 211-253
get_current_week_worklogs(now, username, tracker) ==
    LET start_of_week_ == replace_midnight(now - timedelta(weekday(now), 0, 0, 0))
        end_of_week_ == start_of_week_ + timedelta(6, 23, 59, 59)
        worklogs_data ==
            Concat([i \in 1..Len(tracker) |->
                       week_worklogs_of_issue(tracker[i], start_of_week_,
                                              end_of_week_, username)])
    IN  [total_hours |-> SumSeq([j \in 1..Len(worklogs_data) |->
                                    worklogs_data[j].time_spent_hours]),
         worklogs |-> worklogs_data,
         start_date |-> date(start_of_week_),
         end_date |-> date(end_of_week_)]

\* analytics_service.py lines 113-117: the hours of the work logs of a date
daily_hours(worklogs, day) ==
    LET of_day == SelectSeq(worklogs, LAMBDA w : w.date = day)
    IN  SumSeq([j \in 1..Len(of_day) |-> of_day[j].time_spent_hours])

\* a week counted from its Tuesday
day_date_from_tuesday(start_of_week_, i) ==
    date(start_of_week_ + timedelta(i + 1, 0, 0, 0))

\* line 125: (start_of_week + timedelta(days=i)).strftime('%Y-%m-%d')
day_date(start_of_week_, i) == date(start_of_week_ + timedelta(i, 0, 0, 0))

\* analytics_service.py lines 119-144, on what the fetch returned and the
\* clock read at line 121; 'day' is the index of the day's name
current_week_result(username, worklog_data, now) ==
    LET start_of_week_ == now - timedelta(weekday(now), 0, 0, 0)
    IN  [username |-> username,
         total_hours |-> round2(worklog_data.total_hours),
         start_date |-> worklog_data.start_date,
         end_date |-> worklog_data.end_date,
         daily_stats |->
            [k \in 1..DaysPerWeek |->
                [day |-> k - 1,
                 date |-> day_date(start_of_week_, k - 1),
                 hours |-> round2(daily_hours(worklog_data.worklogs,
                                              day_date(start_of_week_, k - 1)))]],
         tasks_count |->
            Cardinality({worklog_data.worklogs[j].issue_key :
                            j \in 1..Len(worklog_data.worklogs)}),
         worklogs |-> worklog_data.worklogs]

\* analytics_service.py lines 145-155
current_week_failure(username, e) ==
    [username |-> username,
     total_hours |-> 0,
     start_date |-> NoDate,
     end_date |-> NoDate,
     daily_stats |-> << >>,
     tasks_count |-> 0,
     error |-> e]

InitCurrentWeek ==
    /\ current_date = 0
    /\ weeks_count = 0
    /\ pc = "current_week"
    /\ weeks = << >>
    /\ week_idx = 0
    /\ issues = << >>
    /\ fetched = << >>
    /\ returned = << >>
    /\ project_data = empty_project_data
    /\ weekly_stats = << >>
    /\ report = NoReport
    /\ microsecond = 0
    /\ raised = ""
    /\ calls = << >>
    /\ pair = << >>
    /\ current_week = [done |-> FALSE]
    /\ storage = << >>
    /\ bot = << >>

\* analyze_current_week(username) when the tracker answers: the clock is read
\* by get_current_week_worklogs (line 213), the tracker is asked, and the
\* clock is read again (line 121), at the same second or the next one
AnalyzeCurrentWeek ==
    /\ pc = "current_week"
    /\ ~current_week.done
    /\ \E username \in Authors, now \in NowChoices, later \in 0..1,
          tracker \in CurrentWeekTracker :
          /\ TrackerLogsCount(tracker) <= MaxLogs
          /\ current_week' =
                [done |-> TRUE,
                 raised |-> FALSE,
                 username |-> username,
                 now |-> now,
                 now_again |-> now + later,
                 tracker |-> tracker,
                 result |-> current_week_result(
                                username,
                                get_current_week_worklogs(now, username, tracker),
                                now + later)]
    /\ UNCHANGED <<outside_current_week, pair>>

\* analyze_current_week(username) when a call of the tracker client raises
AnalyzeCurrentWeekFails ==
    /\ pc = "current_week"
    /\ ~current_week.done
    /\ \E username \in Authors, now \in NowChoices, e \in TrackerErrors :
          current_week' =
                [done |-> TRUE,
                 raised |-> FALSE,
                 username |-> username,
                 now |-> now,
                 now_again |-> now,
                 tracker |-> << >>,
                 result |-> current_week_failure(username, e)]
    /\ UNCHANGED <<outside_current_week, pair>>

NextCurrentWeek ==
    \/ AnalyzeCurrentWeek
    \/ AnalyzeCurrentWeekFails

SpecCurrentWeek == InitCurrentWeek /\ [][NextCurrentWeek]_vars

\* ------------------------------------------------------- StorageService
\* The user ids and the settings maps the bot hands to save_user_settings: a
\* map is a function from user ids to that user's data.
UserIds == {1}
NoSettings == << >>
SettingsMaps == {NoSettings} \cup {[u \in UserIds |-> project] : project \in {"A", "B"}}

\* str(user_id) and int(user_id): the key of the JSON object is the decimal
\* string of the id
str(user_id) == <<"str", user_id>>
int(key) == key[2]

\* The content of a file: no file, an empty text, a text that is no JSON (a
\* write cut short), a JSON text that is no object, or a JSON object, held as
\* the set of its <<key, value>> members.
NoFile == [kind |-> "none"]
EmptyText == [kind |-> "empty"]
Garbage == [kind |-> "garbage"]
JsonArray == [kind |-> "array"]

\* lines 93-101: json.dump of the map with its ids turned into strings
dumps(settings) ==
    [kind |-> "object",
     members |-> {<<str(u), settings[u]>> : u \in DOMAIN settings}]

\* lines 135-136 and 147-151: json.loads and the ids turned back into ints
loads(content) ==
    [u \in {int(m[1]) : m \in content.members} |->
        (CHOOSE m \in content.members : int(m[1]) = u)[2]]

\* what a load leaves behind and returns
loaded(settings_file, backup_file, settings) ==
    [settings_file |-> settings_file, backup_file |-> backup_file, returned |-> settings]

\* lines 128-161, the settings file being there
read_settings_file(settings_file, backup_file) ==
    IF settings_file.kind = "empty"
    THEN loaded(settings_file, backup_file, NoSettings)
    ELSE IF settings_file.kind = "garbage"
    THEN IF backup_file.kind = "object"
         THEN loaded(backup_file, backup_file, loads(backup_file))
         ELSE loaded(dumps(NoSettings), backup_file, NoSettings)
    ELSE IF settings_file.kind = "array"
    THEN loaded(settings_file, backup_file, NoSettings)
    ELSE loaded(settings_file, backup_file, loads(settings_file))

\* lines 111-161
load_user_settings(settings_file, backup_file) ==
    IF settings_file = NoFile
    THEN IF backup_file # NoFile
         THEN read_settings_file(backup_file, NoFile)
         ELSE loaded(dumps(NoSettings), backup_file, NoSettings)
    ELSE read_settings_file(settings_file, backup_file)

\* lines 86-90: the settings file, if there is one, is copied over the backup
backup_of(settings_file, backup_file) ==
    IF settings_file # NoFile THEN settings_file ELSE backup_file

NoLoad == [settings_file |-> NoFile, backup_file |-> NoFile]

InitStorage ==
    /\ current_date = 0
    /\ weeks_count = 0
    /\ pc = "storage"
    /\ weeks = << >>
    /\ week_idx = 0
    /\ issues = << >>
    /\ fetched = << >>
    /\ returned = << >>
    /\ project_data = empty_project_data
    /\ weekly_stats = << >>
    /\ report = NoReport
    /\ microsecond = 0
    /\ raised = ""
    /\ calls = << >>
    /\ pair = << >>
    /\ current_week = << >>
    /\ storage = [settings_file |-> NoFile,
                  backup_file |-> NoFile,
                  op |-> "none",
                  before |-> NoLoad,
                  result |-> NoSettings]
    /\ bot = << >>

\* save_user_settings(user_settings) returning True, lines 76-104
SaveUserSettings ==
    /\ pc = "storage"
    /\ \E user_settings \in SettingsMaps :
          storage' = [storage EXCEPT
                        !.backup_file = backup_of(storage.settings_file, @),
                        !.settings_file = dumps(user_settings),
                        !.op = "save"]
    /\ UNCHANGED outside_storage

\* save_user_settings returning False, lines 105-107: the write of lines
\* 100-101 raises (OSError) after open(..., 'w') has emptied the file and the
\* backup was made; nothing, or a part of the text, is in the file
SaveUserSettingsFails ==
    /\ pc = "storage"
    /\ \E left \in {EmptyText, Garbage} :
          storage' = [storage EXCEPT
                        !.backup_file = backup_of(storage.settings_file, @),
                        !.settings_file = left,
                        !.op = "save_failed"]
    /\ UNCHANGED outside_storage

\* user_settings.json is lost, or its content is damaged, outside the program
LoseSettingsFile ==
    /\ pc = "storage"
    /\ storage.settings_file # NoFile
    /\ storage' = [storage EXCEPT !.settings_file = NoFile, !.op = "lost"]
    /\ UNCHANGED outside_storage

CorruptSettingsFile ==
    /\ pc = "storage"
    /\ storage.settings_file # NoFile
    /\ \E left \in {EmptyText, Garbage, JsonArray} :
          storage' = [storage EXCEPT !.settings_file = left, !.op = "corrupted"]
    /\ UNCHANGED outside_storage

\* load_user_settings(), lines 111-161
LoadUserSettings ==
    /\ pc = "storage"
    /\ LET l == load_user_settings(storage.settings_file, storage.backup_file)
       IN  storage' = [settings_file |-> l.settings_file,
                       backup_file |-> l.backup_file,
                       op |-> "load",
                       before |-> [settings_file |-> storage.settings_file,
                                   backup_file |-> storage.backup_file],
                       result |-> l.returned]
    /\ UNCHANGED outside_storage

NextStorage ==
    \/ SaveUserSettings
    \/ SaveUserSettingsFails
    \/ LoseSettingsFile
    \/ CorruptSettingsFile
    \/ LoadUserSettings

SpecStorage == InitStorage /\ [][NextStorage]_vars

\* ------------------------------------------------------- JiraTelegramBot
\* The Telegram users, the texts a user sends where a token is expected (one
\* the tracker accepts, one it refuses), and the arguments of /project and
\* /weeks.  None is held as NoProject for a project and as NoWeeks for a
\* number of weeks.
BotUsers == {1, 2}
TokenTexts == {"good", "bad"}
ProjectArgs == {<<"/project">>, <<"/project", "a">>}
WeeksArgs == {<<"/weeks">>, <<"/weeks", 2>>, <<"/weeks", 13>>}
NoProject == "None"
NoWeeks == 0
MinWeeksSetting == 1
MaxWeeksSetting == 12

upper(text) == IF text = "a" THEN "A" ELSE text

\* a dict: a function from its keys to their values
dict_get(d, key, default) == IF key \in DOMAIN d THEN d[key] ELSE default

dict_set(d, key, value) ==
    [k \in DOMAIN d \cup {key} |-> IF k = key THEN value ELSE d[k]]

\* self.user_settings[user_id], and {} where the code makes the entry first
settings_of(user_settings, user_id) ==
    IF user_id \in DOMAIN user_settings THEN user_settings[user_id] ELSE << >>

\* _get_user_token, lines 926-930, as "if not self._get_user_token(user_id)"
\* reads it
has_token(user_settings, user_id) ==
    user_id \in DOMAIN user_settings /\ "token" \in DOMAIN user_settings[user_id]

\* line 164
waiting_for_token(user_settings, user_id) ==
    /\ user_id \in DOMAIN user_settings
    /\ dict_get(user_settings[user_id], "waiting_for_token", FALSE)

\* a tracker that answers every token
get_current_user_never_raises(token, tracker_up) == FALSE

\* lines 176-178 and jira_service.py lines 19-38: JiraService(token) keeps no
\* client when the connection fails, and get_current_user raises then
get_current_user_raises(token, tracker_up) == ~(token = "good" /\ tracker_up)

\* lines 182-187
authorised(settings, token) ==
    dict_set(dict_set(dict_set(dict_set(dict_set(dict_set(settings,
        "token", token),
        "jira_username", "alice"),
        "jira_display_name", "Alice"),
        "jira_groups", << >>),
        "waiting_for_token", FALSE),
        "weekly_notifications", TRUE)

\* lines 516-524
logged_out(settings) ==
    [k \in {"project", "weeks", "waiting_for_token"} |->
        IF k = "project" THEN dict_get(settings, "project", NoProject)
        ELSE IF k = "weeks" THEN dict_get(settings, "weeks", NoWeeks)
        ELSE TRUE]

\* the update handled last
update(op, user_id, user_settings, valid, analysed) ==
    [op |-> op,
     user |-> user_id,
     had_token |-> has_token(user_settings, user_id),
     was_waiting |-> waiting_for_token(user_settings, user_id),
     valid |-> valid,
     analysis |-> analysed]

outside_bot ==
    <<current_date, weeks_count, pc, weeks, week_idx, issues, fetched, returned,
      project_data, weekly_stats, report, microsecond, raised, calls, pair,
      current_week, storage>>

\* the handler changed the settings of the user to 'settings' and saved
handled(last, settings) ==
    /\ pc = "bot"
    /\ bot' = [user_settings |-> dict_set(bot.user_settings, last.user, settings),
               saved |-> dict_set(bot.user_settings, last.user, settings),
               last |-> last]
    /\ UNCHANGED outside_bot

\* the handler answered and changed nothing
answered(last) ==
    /\ pc = "bot"
    /\ bot' = [bot EXCEPT !.last = last]
    /\ UNCHANGED outside_bot

InitBot ==
    /\ current_date = 0
    /\ weeks_count = 0
    /\ pc = "bot"
    /\ weeks = << >>
    /\ week_idx = 0
    /\ issues = << >>
    /\ fetched = << >>
    /\ returned = << >>
    /\ project_data = empty_project_data
    /\ weekly_stats = << >>
    /\ report = NoReport
    /\ microsecond = 0
    /\ raised = ""
    /\ calls = << >>
    /\ pair = << >>
    /\ current_week = << >>
    /\ storage = << >>
    /\ bot = [user_settings |-> << >>,
              saved |-> << >>,
              last |-> update("none", 1, << >>, FALSE, FALSE)]

\* _handle_start_help, lines 246-305
HandleStartHelp(user_id) ==
    LET last == update("/start", user_id, bot.user_settings, FALSE, FALSE)
    IN  IF ~has_token(bot.user_settings, user_id)
        THEN handled(last, dict_set(settings_of(bot.user_settings, user_id),
                                    "waiting_for_token", TRUE))
        ELSE answered(last)

\* _handle_token_input, lines 160-208: a message that is no command
HandleTokenInput(user_id) ==
    \E text \in TokenTexts, tracker_up \in BOOLEAN :
        LET valid == ~get_current_user_raises(text, tracker_up)
            last == update("text", user_id, bot.user_settings, valid, FALSE)
        IN  IF waiting_for_token(bot.user_settings, user_id) /\ valid
            THEN handled(last, authorised(bot.user_settings[user_id], text))
            ELSE answered(last)

\* _handle_stats, lines 307-373: the analysis runs for a user with a token,
\* and its result is kept as last_stats unless it raised
HandleStats(user_id) ==
    IF ~has_token(bot.user_settings, user_id)
    THEN answered(update("/stats", user_id, bot.user_settings, FALSE, FALSE))
    ELSE LET last == update("/stats", user_id, bot.user_settings, FALSE, TRUE)
         IN  \/ handled(last, dict_set(bot.user_settings[user_id], "last_stats", "stats"))
             \/ answered(last)

\* _handle_weekly_report, lines 402-447
HandleWeeklyReport(user_id) ==
    LET last == update("/weekly", user_id, bot.user_settings, FALSE,
                       has_token(bot.user_settings, user_id))
    IN  answered(last)

\* _handle_project, lines 451-475
HandleProject(user_id) ==
    \E args \in ProjectArgs :
        LET last == update("/project", user_id, bot.user_settings, FALSE, FALSE)
        IN  IF has_token(bot.user_settings, user_id) /\ Len(args) = 2
            THEN handled(last, dict_set(bot.user_settings[user_id], "project",
                                        upper(args[2])))
            ELSE answered(last)

\* _handle_weeks, lines 477-508
HandleWeeks(user_id) ==
    \E args \in WeeksArgs :
        LET last == update("/weeks", user_id, bot.user_settings, FALSE, FALSE)
        IN  IF /\ has_token(bot.user_settings, user_id)
               /\ Len(args) = 2
               /\ ~(args[2] < MinWeeksSetting \/ args[2] > MaxWeeksSetting)
            THEN handled(last, dict_set(bot.user_settings[user_id], "weeks", args[2]))
            ELSE answered(last)

\* _handle_notifications_settings, lines 118-158
HandleNotificationsSettings(user_id) ==
    LET last == update("/notifications", user_id, bot.user_settings, FALSE, FALSE)
    IN  answered(last)

\* _handle_logout, lines 510-540
HandleLogout(user_id) ==
    LET last == update("/logout", user_id, bot.user_settings, FALSE, FALSE)
    IN  IF has_token(bot.user_settings, user_id)
        THEN handled(last, logged_out(bot.user_settings[user_id]))
        ELSE answered(last)

\* _process_callback, lines 562-567: the button "enable_notifications"
EnableNotifications(user_id) ==
    LET last == update("enable_notifications", user_id, bot.user_settings, FALSE, FALSE)
    IN  handled(last, dict_set(settings_of(bot.user_settings, user_id),
                               "weekly_notifications", TRUE))

\* _process_callback, lines 627-631: the button "disable_notifications"
DisableNotifications(user_id) ==
    LET last == update("disable_notifications", user_id, bot.user_settings, FALSE, FALSE)
    IN  IF user_id \in DOMAIN bot.user_settings
        THEN handled(last, dict_set(bot.user_settings[user_id],
                                    "weekly_notifications", FALSE))
        ELSE answered(last)

NextBot ==
    \E user_id \in BotUsers :
        \/ HandleStartHelp(user_id)
        \/ HandleTokenInput(user_id)
        \/ HandleStats(user_id)
        \/ HandleWeeklyReport(user_id)
        \/ HandleProject(user_id)
        \/ HandleWeeks(user_id)
        \/ HandleNotificationsSettings(user_id)
        \/ HandleLogout(user_id)
        \/ EnableNotifications(user_id)
        \/ DisableNotifications(user_id)

SpecBot == InitBot /\ [][NextBot]_vars

\* ------------------------------------------------------------------ claims
\* C1: for every reference date and every count >= 1, calculate_working_weeks
\* returns exactly count windows; each starts at 00:00:00 and ends 6 days
\* 23:59:59 later, on the seventh calendar day; window i+1 ends one second
\* before window i starts, on the day before its start day; the starts are
\* strictly descending.
C1_WindowsContiguous ==
    pc = "weeks_done" =>
        /\ Len(weeks) = weeks_count
        /\ \A i \in 1..Len(weeks) :
              /\ weeks[i].start_date % SecondsPerDay = 0
              /\ weeks[i].end_date - weeks[i].start_date
                    = 6 * SecondsPerDay + 23 * 3600 + 59 * 60 + 59
              /\ date(weeks[i].end_date) - date(weeks[i].start_date) + 1 = DaysPerWeek
        /\ \A i \in 1..(Len(weeks) - 1) :
              /\ weeks[i + 1].end_date + 1 = weeks[i].start_date
              /\ date(weeks[i + 1].end_date) = date(weeks[i].start_date) - 1
              /\ weeks[i + 1].start_date < weeks[i].start_date

\* several windows computed from a reference date inside a day, not a Monday
C1_Witness ==
    /\ pc = "weeks_done"
    /\ Len(weeks) >= 2
    /\ current_date % SecondsPerDay # 0
    /\ weekday(current_date) # 0

\* ------------------------------------------------- what the claims speak of
Analyzed == pc = "analyzed"

\* the per-week entries of the result and its raw bundle
WeekEntries == {i \in 1..Len(weekly_stats) : weekly_stats[i].key[1] = "Week"}

FullData ==
    weekly_stats[CHOOSE i \in 1..Len(weekly_stats) :
                    weekly_stats[i].key[1] = "_full_data"].value

Week(i) == weekly_stats[i].value

StartDay(i) == Week(i).start_date \div SecondsPerDay

EndDay(i) == Week(i).end_date \div SecondsPerDay

Elements(s) == {s[i] : i \in 1..Len(s)}

\* the work logs the tracker returned, as (call, position) pairs
Logged == UNION {{<<c, j>> : j \in 1..Len(returned[c].worklogs)} : c \in 1..Len(returned)}

Log(p) == returned[p[1]].worklogs[p[2]]

InWeek(p, i) == StartDay(i) <= Log(p).started /\ Log(p).started <= EndDay(i)

RECURSIVE SecondsOf(_)
SecondsOf(P) ==
    IF P = {} THEN 0
    ELSE LET p == CHOOSE x \in P : TRUE
         IN  Log(p).timeSpentSeconds + SecondsOf(P \ {p})

RECURSIVE SumOfDict(_)
SumOfDict(d) ==
    IF DOMAIN d = {} THEN 0
    ELSE LET k == CHOOSE x \in DOMAIN d : TRUE
         IN  d[k] + SumOfDict([x \in DOMAIN d \ {k} |-> d[x]])

RECURSIVE SumOfWeeks(_, _)
SumOfWeeks(I, field) ==
    IF I = {} THEN 0
    ELSE LET i == CHOOSE x \in I : TRUE
         IN  SumOfDict(Week(i)[field]) + SumOfWeeks(I \ {i}, field)

\* the positions of the no-log records of the raw bundle
NoLogTasks == 1..Len(FullData.tasks_without_worklog)

NoLogTask(t) == FullData.tasks_without_worklog[t]

RECURSIVE EstimateOf(_)
EstimateOf(T) ==
    IF T = {} THEN 0
    ELSE LET t == CHOOSE x \in T : TRUE
         IN  NoLogTask(t).estimated_hours + EstimateOf(T \ {t})

Occurrences(s, key) == Cardinality({j \in 1..Len(s) : s[j].key = key})

\* the first window whose issue fetch returned the issue
FirstWindow(key) ==
    CHOOSE i \in 1..Len(fetched) :
        /\ key \in Elements(fetched[i])
        /\ \A j \in 1..(i - 1) : key \notin Elements(fetched[j])

\* the issues whose work-log fetch returned nothing
NoLogKeys == {returned[c].key : c \in {x \in 1..Len(returned) : returned[x].worklogs = << >>}}

\* C2: in every weekly entry the keys of total_worked_hours are the keys of
\* worked_hours and of estimated_as_worked_hours together, and each author's
\* total is the logged hours plus the estimated hours, a missing one being 0.
C2_TotalIsLoggedPlusEstimated ==
    Analyzed =>
        \A i \in WeekEntries :
            /\ DOMAIN Week(i).total_worked_hours
                  = DOMAIN Week(i).worked_hours \cup DOMAIN Week(i).estimated_as_worked_hours
            /\ \A u \in DOMAIN Week(i).total_worked_hours :
                  Week(i).total_worked_hours[u]
                     = Get(Week(i).worked_hours, u, 0)
                       + Get(Week(i).estimated_as_worked_hours, u, 0)

\* a week where one author has both logged and estimated hours
C2_Witness ==
    /\ Analyzed
    /\ \E i \in WeekEntries :
          \E u \in DOMAIN Week(i).worked_hours \cap DOMAIN Week(i).estimated_as_worked_hours :
              Week(i).worked_hours[u] > 0 /\ Week(i).estimated_as_worked_hours[u] > 0

\* C3: for every week and author, worked_hours holds the sum of the hours of
\* all work logs the tracker returned for that author dated from the week's
\* start day to its end day, both included, whichever window's fetch returned
\* the issue; an author without such a work log is no key of worked_hours.
C3_WorkedHoursByDate ==
    Analyzed =>
        \A i \in WeekEntries :
            /\ DOMAIN Week(i).worked_hours \subseteq Authors
            /\ \A a \in Authors :
                  LET P == {p \in Logged : Log(p).author = a /\ InWeek(p, i)}
                  IN  /\ a \in DOMAIN Week(i).worked_hours <=> P # {}
                      /\ P # {} => Week(i).worked_hours[a] = SecondsOf(P)

\* hours counted in the second week for an issue that the first window's
\* fetch returned, the author having two work logs in that week
C3_Witness ==
    /\ Analyzed
    /\ 2 \in WeekEntries
    /\ \E p, q \in Logged :
          /\ p # q
          /\ Log(p).author = Log(q).author
          /\ InWeek(p, 2) /\ InWeek(q, 2)
          /\ returned[p[1]].key \in Elements(fetched[1])

\* C4: a work log of a collected issue dated in no window stays in the raw
\* bundle's all_worklogs of its issue, is in no week's worklogs map, and its
\* hours are in no week's worked_hours and in no week's total_worked_hours.
C4_OutsideEveryWindow ==
    Analyzed =>
        LET Outside == {p \in Logged : \A i \in WeekEntries : ~InWeek(p, i)}
            Kept(p) ==
                \E n \in 1..Len(FullData.all_worklogs) :
                    /\ FullData.all_worklogs[n].key = returned[p[1]].key
                    /\ p[2] \in 1..Len(FullData.all_worklogs[n].value)
                    /\ FullData.all_worklogs[n].value[p[2]].date = Log(p).started
                    /\ FullData.all_worklogs[n].value[p[2]].author = Log(p).author
                    /\ FullData.all_worklogs[n].value[p[2]].hours = Log(p).timeSpentSeconds
        IN  /\ \A p \in Outside : Kept(p)
            /\ \A i \in WeekEntries :
                  \A n \in 1..Len(Week(i).worklogs) :
                      \A j \in 1..Len(Week(i).worklogs[n].value) :
                          /\ StartDay(i) <= Week(i).worklogs[n].value[j].date
                          /\ Week(i).worklogs[n].value[j].date <= EndDay(i)
            /\ SumOfWeeks(WeekEntries, "worked_hours") = SecondsOf(Logged \ Outside)
            /\ SumOfWeeks(WeekEntries, "total_worked_hours")
                  = SecondsOf(Logged \ Outside) + EstimateOf(NoLogTasks)

\* an issue with one work log inside a window and one outside every window
C4_Witness ==
    /\ Analyzed
    /\ \E p, q \in Logged :
          /\ p[1] = q[1]
          /\ \A i \in WeekEntries : ~InWeek(p, i)
          /\ \E i \in WeekEntries : InWeek(q, i)

\* C5: an issue whose work-log fetch returned nothing is in the
\* tasks_without_worklog list of the first window whose fetch returned it,
\* once, and in the list of no other week.
C5_NoLogIssueInFirstWindowOnly ==
    Analyzed =>
        \A key \in NoLogKeys :
            \A i \in WeekEntries :
                Occurrences(Week(i).tasks_without_worklog, key)
                    = IF i = FirstWindow(key) THEN 1 ELSE 0

\* an issue without work logs that two windows' fetches returned
C5_Witness ==
    /\ Analyzed
    /\ \E key \in NoLogKeys :
          key \in Elements(fetched[1]) /\ 2 \in WeekEntries /\ key \in Elements(fetched[2])

\* C6: for every week and assignee, estimated_as_worked_hours holds (0 when
\* absent) the sum of the estimates of the no-log issues recorded for the week
\* and assigned to that assignee, and total_worked_hours holds the logged
\* hours plus that sum.
C6_EstimatesAccumulate ==
    Analyzed =>
        \A i \in WeekEntries :
            \A a \in Authors \cup {Unassigned} :
                LET T == {t \in NoLogTasks :
                            /\ NoLogTask(t).week = weekly_stats[i].key
                            /\ NoLogTask(t).assignee = a}
                IN  /\ Get(Week(i).estimated_as_worked_hours, a, 0) = EstimateOf(T)
                    /\ Get(Week(i).total_worked_hours, a, 0)
                          = Get(Week(i).worked_hours, a, 0) + EstimateOf(T)

\* two estimated no-log issues of one assignee in one week, nothing logged
C6_Witness ==
    /\ Analyzed
    /\ \E i \in WeekEntries :
          \E t, u \in NoLogTasks :
              /\ t # u
              /\ NoLogTask(t).week = weekly_stats[i].key
              /\ NoLogTask(u).week = weekly_stats[i].key
              /\ NoLogTask(t).assignee = NoLogTask(u).assignee
              /\ NoLogTask(t).estimated_hours > 0
              /\ NoLogTask(u).estimated_hours > 0
              /\ Week(i).worked_hours = << >>
              /\ Week(i).total_worked_hours[NoLogTask(t).assignee]
                    = NoLogTask(t).estimated_hours + NoLogTask(u).estimated_hours

\* the hundredth of an hour nearest to seconds/3600 hours
Hundredths(seconds) ==
    CHOOSE h \in {seconds \div 36, seconds \div 36 + 1} :
        36 * h - seconds <= 18 /\ seconds - 36 * h <= 18

HoursTable == report.kind = "hours" /\ report.error = ""

\* the author rows of the hours table, the last row being the totals row
AuthorRows == 1..(Len(report.rows) - 1)

RECURSIVE SumOfCells(_, _)
SumOfCells(cells, I) ==
    IF I = {} THEN 0
    ELSE LET i == CHOOSE x \in I : TRUE
         IN  cells[i] + SumOfCells(cells, I \ {i})

RECURSIVE SumOfColumn(_, _)
SumOfColumn(i, J) ==
    IF J = {} THEN 0
    ELSE LET j == CHOOSE x \in J : TRUE
         IN  report.rows[j].cells[i] + SumOfColumn(i, J \ {j})

RECURSIVE SumOfRowTotals(_)
SumOfRowTotals(J) ==
    IF J = {} THEN 0
    ELSE LET j == CHOOSE x \in J : TRUE
         IN  report.rows[j].total + SumOfRowTotals(J \ {j})

RECURSIVE LoggedByUser(_, _)
LoggedByUser(I, user) ==
    IF I = {} THEN 0
    ELSE LET i == CHOOSE x \in I : TRUE
         IN  Get(Week(i).worked_hours, user, 0) + LoggedByUser(I \ {i}, user)

\* C7: the rows of the hours table, the totals row apart, are the authors of
\* all weeks' total_worked_hours, and the cell of an author and a week is the
\* week's total_worked_hours of the author (0.0 when absent), shown with two
\* decimals: logged hours plus estimated hours.
C7_HoursTableFromTotals ==
    HoursTable =>
        /\ {report.rows[j].name : j \in AuthorRows}
              = UNION {DOMAIN Week(i).total_worked_hours : i \in WeekEntries}
        /\ \A j \in AuthorRows :
              \A i \in WeekEntries :
                  report.rows[j].cells[i]
                     = Hundredths(Get(Week(i).total_worked_hours, report.rows[j].name, 0))

C9_ReportsSkipFullData ==
    report.kind \in {"hours", "no_worklog", "tasks_count"} =>
        /\ report.error = ""
        /\ report.kind = "hours" =>
              /\ Len(report.columns) = Cardinality(WeekEntries)
              /\ \A i \in WeekEntries : report.columns[i] = weekly_stats[i].key
              /\ \A j \in 1..Len(report.rows) : Len(report.rows[j].cells) = Cardinality(WeekEntries)
              /\ {report.rows[j].name : j \in AuthorRows}
                    \subseteq UNION {DOMAIN Week(i).worked_hours
                                        \cup DOMAIN Week(i).total_worked_hours :
                                     i \in WeekEntries}
        /\ report.kind = "no_worklog" =>
              /\ Len(report.rows) = Len(FullData.tasks_without_worklog)
              /\ \A j \in 1..Len(report.rows) :
                    \E i \in WeekEntries :
                        /\ report.rows[j].week = weekly_stats[i].key
                        /\ report.rows[j] \in Elements(Week(i).tasks_without_worklog)
        /\ report.kind = "tasks_count" =>
              /\ Len(report.counts) = Cardinality(WeekEntries)
              /\ \A i \in WeekEntries :
                    /\ report.counts[i].key = weekly_stats[i].key
                    /\ report.counts[i].value = Week(i).total_issues

\* a no-log report of a result whose raw bundle holds no-log issues
C9_Witness ==
    /\ report.kind = "no_worklog"
    /\ report.error = ""
    /\ Len(FullData.tasks_without_worklog) = 2
    /\ Len(report.rows) = 2

\* C10: no two entries of the no-log list derived from an analysis result have
\* the same issue key, in create_no_worklog_report as in
\* _get_unique_no_worklog_tasks.
C10_NoLogListHasNoDuplicate ==
    (report.kind \in {"no_worklog", "unique_no_worklog"} /\ report.error = "") =>
        \A j, k \in 1..Len(report.rows) :
            j # k => report.rows[j].key # report.rows[k].key

\* the list of _get_unique_no_worklog_tasks for an issue without work logs
\* that two windows' fetches returned, and another such issue
C10_Witness ==
    /\ report.kind = "unique_no_worklog"
    /\ Len(report.rows) = 2
    /\ \E key \in NoLogKeys :
          key \in Elements(fetched[1]) /\ 2 \in WeekEntries /\ key \in Elements(fetched[2])

\* ------------------------------------------------ get_user_tasks_details
UserTasks == report.kind = "user_tasks" /\ report.error = ""

\* the work logs of the user the tracker returned, dated inside some window
UserLogs(user) ==
    {p \in Logged : Log(p).author = user /\ \E i \in WeekEntries : InWeek(p, i)}

UserLogsOf(user, key) == {p \in UserLogs(user) : returned[p[1]].key = key}

LoggedKeysOf(user) == {returned[p[1]].key : p \in UserLogs(user)}

NoLogTasksOf(user) ==
    {t \in NoLogTasks :
        NoLogTask(t).assignee = user /\ NoLogTask(t).key \notin LoggedKeysOf(user)}

RowsOf(key) == {r \in 1..Len(report.rows) : report.rows[r].key = key}

\* C11: get_user_tasks_details(result, user) on a result carrying the raw
\* bundle returns exactly one entry per issue with a work log of the user dated
\* inside some window, its hours the sum of the user's in-window work logs of
\* the issue, and one entry per no-log issue assigned to the user and not
\* among the former, its hours the estimate; nothing else is returned, so an
\* issue where the user has only out-of-window work logs is absent.
C11_UserTasksExact ==
    UserTasks =>
        LET user == report.user
        IN  /\ {report.rows[r].key : r \in 1..Len(report.rows)}
                  = LoggedKeysOf(user) \cup {NoLogTask(t).key : t \in NoLogTasksOf(user)}
            /\ \A r \in 1..Len(report.rows) : Cardinality(RowsOf(report.rows[r].key)) = 1
            /\ \A key \in LoggedKeysOf(user) : \A r \in RowsOf(key) :
                  /\ ~report.rows[r].estimated
                  /\ report.rows[r].hours = SecondsOf(UserLogsOf(user, key))
            /\ \A t \in NoLogTasksOf(user) : \A r \in RowsOf(NoLogTask(t).key) :
                  /\ report.rows[r].estimated
                  /\ report.rows[r].hours = NoLogTask(t).estimated_hours

\* the user has an issue with a work log inside a window and one outside every
\* window, listed with the hours of the former alone, and a no-log issue,
\* listed with its estimate
C11_Witness ==
    /\ UserTasks
    /\ \E r \in 1..Len(report.rows) : report.rows[r].estimated /\ report.rows[r].hours > 0
    /\ \E p \in Logged :
          /\ Log(p).author = report.user
          /\ ~\E i \in WeekEntries : InWeek(p, i)
          /\ \E r \in RowsOf(returned[p[1]].key) :
                report.rows[r].hours = TimeSpent[report.user]

\* the place of a row's issue in the order the issues were met in: the issues
\* with work logs in all_worklogs order, then the no-log issues
Encounter(row) ==
    IF row.estimated
    THEN Len(FullData.all_worklogs)
            + (CHOOSE t \in NoLogTasks : NoLogTask(t).key = row.key)
    ELSE CHOOSE i \in 1..Len(FullData.all_worklogs) :
            FullData.all_worklogs[i].key = row.key

\* C12: the list of get_user_tasks_details is ordered by hours descending and
\* entries of equal hours keep the order they were met in.
C12_SortedStable ==
    UserTasks =>
        \A i, j \in 1..Len(report.rows) :
            i < j =>
                /\ report.rows[i].hours >= report.rows[j].hours
                /\ report.rows[i].hours = report.rows[j].hours
                      => Encounter(report.rows[i]) < Encounter(report.rows[j])

\* two entries of equal hours, and a third of other hours
C12_Witness ==
    /\ UserTasks
    /\ \E i, j \in 1..Len(report.rows) :
          i < j /\ report.rows[i].hours = report.rows[j].hours

\* ------------------------------------------------------------ task counts
\* C13: for every window, create_tasks_count_report gives the number of issues
\* the issue fetch returned for it; an issue returned for two windows is in
\* both counts, while it is recorded once and its work logs were fetched once.
C13_CountsWhatWasFetched ==
    (report.kind = "tasks_count" /\ report.error = "") =>
        /\ Len(report.counts) = Len(fetched)
        /\ \A i \in 1..Len(fetched) :
              /\ report.counts[i].key = weekly_stats[i].key
              /\ report.counts[i].key[2] = i
              /\ report.counts[i].value = Len(fetched[i])
        /\ \A i \in 1..Len(fetched) : \A key \in Elements(fetched[i]) :
              /\ Cardinality({c \in 1..Len(returned) : returned[c].key = key}) = 1
              /\ key \in DOMAIN FullData.all_issues

\* an issue returned for the two windows, counted in both
C13_Witness ==
    /\ report.kind = "tasks_count"
    /\ report.error = ""
    /\ Len(fetched) = 2
    /\ \E key \in Elements(fetched[1]) : key \in Elements(fetched[2])
    /\ report.counts[1].value = 2
    /\ report.counts[2].value >= 1

\* ----------------------------------------------------------------- errors
\* a work-log fetch returned a work log whose date is no YYYY-MM-DD date
MalformedReturned ==
    \E c \in 1..Len(calls) :
        /\ calls[c].op = "worklogs"
        /\ calls[c].error = ""
        /\ \E j \in 1..Len(calls[c].worklogs) : calls[c].worklogs[j].started = Malformed

\* C14: when a work log of a collected issue has a date string that is no
\* valid YYYY-MM-DD date, analyze_project raises and returns no weekly
\* statistics, not even a partly built per-week map.
C14_MalformedDateAborts ==
    MalformedReturned =>
        /\ pc = "raised"
        /\ raised # ""
        /\ weekly_stats = << >>

\* the malformed date comes after a well-formed work log of the same issue,
\* in the second window, an issue having been collected before
C14_Witness ==
    /\ MalformedReturned
    /\ pc = "raised"
    /\ Len(returned) >= 1
    /\ Len(fetched) = 2
    /\ Len(calls[Len(calls)].worklogs) = 2
    /\ calls[Len(calls)].worklogs[1].started # Malformed

FailedCalls == {c \in 1..Len(calls) : calls[c].error # ""}

\* C15: when an issue fetch or a work-log fetch fails, the very error of the
\* fetch reaches the caller of analyze_project, no result is returned, and
\* the fetch is not made again: no call follows the failed one, and no
\* window's issue fetch and no issue's work-log fetch is made twice.
C15_ErrorPropagatesNoRetry ==
    /\ \A c \in FailedCalls :
          /\ pc = "raised"
          /\ raised = calls[c].error
          /\ weekly_stats = << >>
          /\ c = Len(calls)
    /\ \A c, d \in 1..Len(calls) :
          (/\ calls[c].op = calls[d].op
           /\ calls[c].window = calls[d].window
           /\ calls[c].key = calls[d].key) => c = d

\* a work-log fetch fails in the second window, after fetches that succeeded
C15_Witness ==
    /\ FailedCalls # {}
    /\ pc = "raised"
    /\ calls[Len(calls)].op = "worklogs"
    /\ Len(fetched) = 2
    /\ Len(returned) >= 1

C18_WebappSkipsFullData ==
    report.kind = "webapp" =>
        /\ report.error = ""
        /\ \A i \in 1..Len(report.weeks) : report.weeks[i] # FullDataKey
        /\ \A i \in 1..Len(report.tasks_count) : report.tasks_count[i].key # FullDataKey
        /\ \A j \in 1..Len(report.hours_table) :
              Len(report.hours_table[j].cells) = Cardinality(WeekEntries)

\* ------------------------------------------------ the windows and the date
\* the reference date lies in window i at the precision of a microsecond
RefInWindow(i) ==
    /\ weeks[i].start_date <= current_date
    /\ \/ current_date < weeks[i].end_date
       \/ current_date = weeks[i].end_date /\ microsecond = 0

\* window i is the calendar week lying i - 1 weeks before the week of the
\* reference date: from its Monday 00:00:00 to 6 days 23:59:59 later
WindowIsWeek(i) ==
    /\ weeks[i].start_date % SecondsPerDay = 0
    /\ weekday(weeks[i].start_date) = 0
    /\ date(weeks[i].start_date) <= date(current_date) - DaysPerWeek * (i - 1)
    /\ date(current_date) - DaysPerWeek * (i - 1) <= date(weeks[i].start_date) + 6
    /\ weeks[i].end_date = weeks[i].start_date + 6 * SecondsPerDay + 23 * 3600 + 59 * 60 + 59

\* the reference date lies after 23:59:59.000000 of a Sunday
LastSecondOfWeek ==
    /\ weekday(current_date) = 6
    /\ current_date % SecondsPerDay = SecondsPerDay - 1
    /\ microsecond > 0

\* C19 as stated: every window i is the calendar week i weeks before the week
\* of the reference date, and window 0 contains the reference date.
C19_WindowZeroContainsReference ==
    pc = "weeks_done" =>
        /\ \A i \in 1..Len(weeks) : WindowIsWeek(i)
        /\ RefInWindow(1)

\* C19: every window i starts at 00:00:00 on the Monday of the calendar week
\* lying i weeks before the week of the reference date and ends 6 days
\* 23:59:59 later; window 0 contains the calendar day of the reference date
\* and the reference date cut to whole seconds, and the reference date itself
\* unless it lies after 23:59:59.000000 of the Sunday.
C19_WindowOfCalendarWeek ==
    pc = "weeks_done" =>
        /\ \A i \in 1..Len(weeks) : WindowIsWeek(i)
        /\ weeks[1].start_date <= current_date
        /\ current_date <= weeks[1].end_date
        /\ date(weeks[1].start_date) <= date(current_date)
        /\ date(current_date) <= date(weeks[1].end_date)
        /\ RefInWindow(1) <=> ~LastSecondOfWeek

\* the reference date lies in the last second of a Sunday, past its start
C19_Witness ==
    /\ pc = "weeks_done"
    /\ Len(weeks) >= 2
    /\ LastSecondOfWeek
    /\ ~RefInWindow(1)

\* C20 as stated: the most recent window ends at or before the reference date.
C20_EndsBeforeReference ==
    pc = "weeks_done" => weeks[1].end_date <= current_date

\* C20: the most recent window (window 0) starts at or before the reference
\* date and ends at or after the reference date cut to whole seconds, on the
\* Sunday of the week of the reference date: later than it unless the
\* reference date lies in the last second of that Sunday; every other window
\* ends before the reference date.
C20_StartsBeforeReference ==
    pc = "weeks_done" =>
        /\ weeks[1].start_date <= current_date
        /\ weeks[1].end_date >= current_date
        /\ weekday(weeks[1].end_date) = 6
        /\ weeks[1].end_date - current_date < DaysPerWeek * SecondsPerDay
        /\ weeks[1].end_date = current_date
              <=> (weekday(current_date) = 6
                   /\ current_date % SecondsPerDay = SecondsPerDay - 1)
        /\ \A i \in 2..Len(weeks) : weeks[i].end_date < current_date

\* the reference date is a Wednesday noon: window 0 ends four days later
C20_Witness ==
    /\ pc = "weeks_done"
    /\ Len(weeks) >= 2
    /\ weekday(current_date) = 2
    /\ weeks[1].end_date > current_date + 4 * SecondsPerDay

\* ------------------------------------------------------------ two calls
\* collect_project_data of call c run alone on what its fetches returned:
\* window after window, issue after issue
RECURSIVE CollectIssuesAlone(_, _, _, _, _)
CollectIssuesAlone(c, data, name, w, keys) ==
    IF keys = << >> THEN data
    ELSE LET key == Head(keys)
             in == PairTracker[c][key]
         IN  CollectIssuesAlone(
                c,
                IF key \in DOMAIN data.all_issues
                THEN data
                ELSE record_issue(data, name, key, in.assignee, in.estimate,
                                  in.worklogs, w.start_date, w.end_date),
                name, w, Tail(keys))

RECURSIVE CollectAlone(_, _, _)
CollectAlone(c, data, i) ==
    IF i > Len(pair[c].fetched) THEN data
    ELSE LET w == pair[c].weeks[i]
             name == week_name(i - 1, w.start_date, w.end_date)
             with_week ==
                [data EXCEPT
                    !.weeks_info =
                        Append(@, [key |-> name,
                                   value |-> [start_date |-> w.start_date,
                                              end_date |-> w.end_date,
                                              issues_count |-> Len(pair[c].fetched[i])]])]
         IN  CollectAlone(c, CollectIssuesAlone(c, with_week, name, w, pair[c].fetched[i]),
                          i + 1)

AnalyzeAlone(c) ==
    LET data == CollectAlone(c, empty_project_data, 1)
    IN  Append(create_weekly_stats(data), [key |-> FullDataKey, value |-> data])

\* C17: two analyze_project calls on one service, for independent inputs and
\* interleaved at any step, each return what the call returns when it runs
\* alone on the same inputs.
C17_CallsDoNotInterfere ==
    pc = "pair" =>
        \A c \in Callers :
            pair[c].pc = "done" => pair[c].weekly_stats = AnalyzeAlone(c)

\* both calls returned, each having taken steps while the other was under
\* way, each with the two issues of its project in its bundle
C17_Witness ==
    /\ pc = "pair"
    /\ \A c \in Callers :
          /\ pair[c].pc = "done"
          /\ pair[c].overlapped
          /\ Len(pair[c].fetched) = 2
          /\ Len(pair[c].project_data.all_worklogs) = 1
          /\ Len(pair[c].project_data.tasks_without_worklog) = 1

\* ------------------------------------------------------ the no-log issues
\* the issues the analysis collected, as positions of `returned`
Collected == 1..Len(returned)

\* the work logs of a collected issue dated inside week i
LogsInWeek(c, i) == {p \in Logged : p[1] = c /\ InWeek(p, i)}

\* the label an issue's assignee is recorded under
LabelOf(c) ==
    IF returned[c].assignee = NoAssignee THEN Unassigned ELSE returned[c].assignee

ListedIn(i, key) ==
    \E t \in 1..Len(Week(i).tasks_without_worklog) :
        Week(i).tasks_without_worklog[t].key = key

RECURSIVE RawEstimate(_)
RawEstimate(C) ==
    IF C = {} THEN 0
    ELSE LET c == CHOOSE x \in C : TRUE
         IN  returned[c].estimate + RawEstimate(C \ {c})

\* the collected issues without any work log, first observed in week i, of
\* the assignee label a
NoLogOf(i, a) ==
    {c \in Collected :
        /\ returned[c].worklogs = << >>
        /\ FirstWindow(returned[c].key) = i
        /\ LabelOf(c) = a}

\* C21: an issue listed in a week's tasks_without_worklog has no work log
\* dated inside that week, and its key is no key of that week's worklogs map.
C21_ListedIssueHasNoLogInWeek ==
    Analyzed =>
        \A i \in WeekEntries :
            \A t \in 1..Len(Week(i).tasks_without_worklog) :
                LET key == Week(i).tasks_without_worklog[t].key
                IN  /\ \A p \in Logged : returned[p[1]].key = key => ~InWeek(p, i)
                    /\ \A k \in 1..Len(Week(i).worklogs) : Week(i).worklogs[k].key # key

\* a week with a no-log issue listed and the work logs of another issue
C21_Witness ==
    /\ Analyzed
    /\ \E i \in WeekEntries :
          /\ Week(i).tasks_without_worklog # << >>
          /\ Week(i).worklogs # << >>

\* C22: an issue first observed in a window and without a work log dated
\* inside that window is listed in that week's tasks_without_worklog and its
\* estimate is part of its assignee's estimated_as_worked_hours, also when it
\* has work logs dated outside the window.
C22_NoLogInsideWindowIsListed ==
    Analyzed =>
        \A c \in Collected :
            LET i == FirstWindow(returned[c].key)
            IN  LogsInWeek(c, i) = {} =>
                    /\ ListedIn(i, returned[c].key)
                    /\ Get(Week(i).estimated_as_worked_hours, LabelOf(c), 0)
                          >= returned[c].estimate

\* C23: an issue without assignee is recorded under the sentinel label; when
\* it has no work log it is listed in the week it was first observed in, and
\* the estimates of the week's unassigned no-log issues are the sentinel's
\* estimated_as_worked_hours and are part of its total_worked_hours.
C23_UnassignedIsKept ==
    Analyzed =>
        \A c \in Collected :
            returned[c].assignee = NoAssignee =>
                LET key == returned[c].key
                    i == FirstWindow(key)
                IN  /\ key \in DOMAIN FullData.all_issues
                    /\ FullData.all_issues[key].assignee = Unassigned
                    /\ returned[c].worklogs = << >> =>
                          /\ \E t \in 1..Len(Week(i).tasks_without_worklog) :
                                /\ Week(i).tasks_without_worklog[t].key = key
                                /\ Week(i).tasks_without_worklog[t].assignee = Unassigned
                          /\ Get(Week(i).estimated_as_worked_hours, Unassigned, 0)
                                = RawEstimate(NoLogOf(i, Unassigned))
                          /\ Get(Week(i).total_worked_hours, Unassigned, 0)
                                = Get(Week(i).worked_hours, Unassigned, 0)
                                    + RawEstimate(NoLogOf(i, Unassigned))

\* two unassigned no-log issues with an estimate, in one week
C23_Witness ==
    /\ Analyzed
    /\ \E i \in WeekEntries :
          /\ Cardinality(NoLogOf(i, Unassigned)) = 2
          /\ Unassigned \in DOMAIN Week(i).total_worked_hours
          /\ Week(i).total_worked_hours[Unassigned] = 2 * 28800

\* C24: an issue with no work log and a zero original estimate is listed in
\* the tasks_without_worklog of the week it was first observed in, with
\* estimated_hours 0, and the no-log report returns it.
C24_ZeroEstimateIsListed ==
    weekly_stats # << >> =>
        \A c \in Collected :
            (returned[c].worklogs = << >> /\ returned[c].estimate = 0) =>
                LET key == returned[c].key
                    i == FirstWindow(key)
                IN  /\ \E t \in 1..Len(Week(i).tasks_without_worklog) :
                          /\ Week(i).tasks_without_worklog[t].key = key
                          /\ Week(i).tasks_without_worklog[t].estimated_hours = 0
                    /\ (report.kind = "no_worklog" /\ report.error = "") =>
                          \E r \in 1..Len(report.rows) :
                              /\ report.rows[r].key = key
                              /\ report.rows[r].estimated_hours = 0

\* the no-log report holds an issue of zero estimate and one with an estimate
C24_Witness ==
    /\ report.kind = "no_worklog"
    /\ report.error = ""
    /\ \E r, q \in 1..Len(report.rows) :
          report.rows[r].estimated_hours = 0 /\ report.rows[q].estimated_hours > 0

\* C25: every issue a window's fetch returned is recorded once in all_issues
\* and its work logs were fetched once; all_worklogs holds the work logs that
\* fetch returned, each once; so no week counts the hours of an issue
\* returned for several windows twice.
C25_RecordedOnce ==
    Analyzed =>
        /\ DOMAIN FullData.all_issues = UNION {Elements(fetched[i]) : i \in 1..Len(fetched)}
        /\ \A key \in DOMAIN FullData.all_issues :
              /\ Cardinality({c \in 1..Len(calls) :
                                 calls[c].op = "worklogs" /\ calls[c].key = key}) = 1
              /\ Cardinality({c \in Collected : returned[c].key = key}) = 1
        /\ Len(all_entries(FullData)) = Cardinality(Logged)
        /\ \A c \in Collected :
              returned[c].worklogs # << >> =>
                  \E k \in 1..Len(FullData.all_worklogs) :
                      /\ FullData.all_worklogs[k].key = returned[c].key
                      /\ Len(FullData.all_worklogs[k].value) = Len(returned[c].worklogs)
                      /\ \A j \in 1..Len(returned[c].worklogs) :
                            /\ FullData.all_worklogs[k].value[j].date
                                  = returned[c].worklogs[j].started
                            /\ FullData.all_worklogs[k].value[j].author
                                  = returned[c].worklogs[j].author
        /\ \A i \in WeekEntries : \A a \in Authors :
              Get(Week(i).worked_hours, a, 0)
                  = SecondsOf({p \in Logged : Log(p).author = a /\ InWeek(p, i)})

\* an issue with work logs returned for the two windows, a work log in each
C25_Witness ==
    /\ Analyzed
    /\ Len(fetched) = 2
    /\ \E c \in Collected :
          /\ returned[c].key \in Elements(fetched[1])
          /\ returned[c].key \in Elements(fetched[2])
          /\ LogsInWeek(c, 1) # {}
          /\ LogsInWeek(c, 2) # {}

\* C26: the keys of a week's estimated_as_worked_hours are the assignees with
\* a no-log issue of the week whose estimate is not zero; an assignee whose
\* no-log issues of the week all have a zero estimate and who logged nothing
\* in the week is a key of neither estimated_as_worked_hours nor
\* total_worked_hours, the issues being listed all the same.
C26_EstimateKeysNeedNonZero ==
    Analyzed =>
        \A i \in WeekEntries :
            /\ DOMAIN Week(i).estimated_as_worked_hours
                  = {LabelOf(c) : c \in {x \in Collected :
                                            /\ returned[x].worklogs = << >>
                                            /\ FirstWindow(returned[x].key) = i
                                            /\ returned[x].estimate # 0}}
            /\ \A a \in Authors \cup {Unassigned} :
                  (/\ NoLogOf(i, a) # {}
                   /\ RawEstimate(NoLogOf(i, a)) = 0
                   /\ a \notin DOMAIN Week(i).worked_hours) =>
                      /\ a \notin DOMAIN Week(i).estimated_as_worked_hours
                      /\ a \notin DOMAIN Week(i).total_worked_hours
                      /\ \A c \in NoLogOf(i, a) : ListedIn(i, returned[c].key)

\* alice has a no-log issue of zero estimate and nothing else in a week where
\* the unassigned label has an estimate
C26_Witness ==
    /\ Analyzed
    /\ \E i \in WeekEntries :
          /\ NoLogOf(i, "alice") # {}
          /\ "alice" \notin DOMAIN Week(i).total_worked_hours
          /\ Unassigned \in DOMAIN Week(i).estimated_as_worked_hours

\* ------------------------------------------- the map without the raw bundle
\* C27: get_user_tasks_details on a weekly map without the '_full_data' entry
\* returns without error, and what it returns is one entry per no-log task
\* assigned to the user, the hours the task's estimate, ordered by hours
\* descending.
C27_FallbackReturnsNoLogTasks ==
    report.kind = "user_tasks_fallback" =>
        /\ report.error = ""
        /\ Len(report.rows)
              = Cardinality({t \in NoLogTasks : NoLogTask(t).assignee = report.user})
        /\ \A r \in 1..Len(report.rows) - 1 :
              report.rows[r].hours >= report.rows[r + 1].hours

\* ------------------------------------------------------- the current week
CurrentWeekDone == current_week.done

CurrentWeekFailed == CurrentWeekDone /\ "error" \in DOMAIN current_week.result

CurrentWeekSucceeded == CurrentWeekDone /\ "error" \notin DOMAIN current_week.result

\* the Monday of the week a moment lies in
MondayOf(now) == date(now) - weekday(now)

\* the work logs of the user the tracker holds, dated inside the week the
\* fetch began in: <<issue, place in the issue's list>>
FetchedLogs ==
    {p \in {<<i, j>> : i \in 1..Len(current_week.tracker), j \in 1..MaxLogs} :
        /\ p[2] <= Len(current_week.tracker[p[1]].worklogs)
        /\ LET w == current_week.tracker[p[1]].worklogs[p[2]]
           IN  /\ w.author = current_week.username
               /\ w.started \in MondayOf(current_week.now)
                                  ..MondayOf(current_week.now) + DaysPerWeek - 1}

FetchedLog(p) == current_week.tracker[p[1]].worklogs[p[2]]

RECURSIVE FetchedSeconds(_)
FetchedSeconds(P) ==
    IF P = {} THEN 0
    ELSE LET p == CHOOSE x \in P : TRUE
         IN  FetchedLog(p).timeSpentSeconds + FetchedSeconds(P \ {p})

DailySum ==
    SumSeq([k \in 1..Len(current_week.result.daily_stats) |->
               current_week.result.daily_stats[k].hours])

\* C28 as stated: analyze_current_week never raises; a failed fetch gives
\* total_hours 0, tasks_count 0, no daily_stats and an 'error' field, and
\* nothing but that field tells the record from one of a week without hours;
\* on success daily_stats has 7 entries, Monday to Sunday of the current week,
\* whose hours sum to total_hours.
C28_SevenDaysSumToTotal ==
    CurrentWeekDone =>
        /\ ~current_week.raised
        /\ CurrentWeekFailed =>
              /\ current_week.result.total_hours = 0
              /\ current_week.result.tasks_count = 0
              /\ current_week.result.daily_stats = << >>
              /\ [f \in DOMAIN current_week.result \ {"error"} |-> current_week.result[f]]
                    = [f \in {"username", "total_hours", "start_date", "end_date",
                              "daily_stats", "tasks_count"} |->
                          current_week_result(current_week.username,
                              get_current_week_worklogs(current_week.now,
                                  current_week.username, << >>),
                              current_week.now)[f]]
        /\ CurrentWeekSucceeded =>
              /\ Len(current_week.result.daily_stats) = DaysPerWeek
              /\ \A k \in 1..DaysPerWeek :
                    current_week.result.daily_stats[k].date
                        = MondayOf(current_week.now_again) + k - 1
              /\ DailySum = current_week.result.total_hours

\* C28: analyze_current_week never raises.  A failed fetch gives the record
\* with total_hours 0, tasks_count 0, no daily_stats, no dates and the 'error'
\* field.  On success daily_stats has 7 entries, Monday to Sunday of the week
\* the clock is in when it is read after the fetch; each day's hours are the
\* fetched work-log hours of that date rounded to two decimals, total_hours is
\* the fetched hours rounded to two decimals, the fetched work logs being the
\* user's of the week the fetch began in; when both clock readings lie in one
\* week the days' hours sum to total_hours within 0.04 h.
C28_SevenDaysRounded ==
    CurrentWeekDone =>
        /\ ~current_week.raised
        /\ CurrentWeekFailed =>
              /\ current_week.result.total_hours = 0
              /\ current_week.result.tasks_count = 0
              /\ current_week.result.daily_stats = << >>
              /\ current_week.result.start_date = NoDate
              /\ current_week.result.end_date = NoDate
              /\ current_week.result.error \in TrackerErrors
        /\ CurrentWeekSucceeded =>
              /\ Len(current_week.result.daily_stats) = DaysPerWeek
              /\ \A k \in 1..DaysPerWeek :
                    LET day == current_week.result.daily_stats[k]
                    IN  /\ day.date = MondayOf(current_week.now_again) + k - 1
                        /\ day.day = k - 1
                        /\ day.hours
                              = round2(FetchedSeconds(
                                    {p \in FetchedLogs : FetchedLog(p).started = day.date}))
              /\ current_week.result.total_hours = round2(FetchedSeconds(FetchedLogs))
              /\ current_week.result.tasks_count
                    = Cardinality({current_week.tracker[p[1]].key : p \in FetchedLogs})
              /\ current_week.result.start_date = MondayOf(current_week.now)
              /\ current_week.result.end_date = MondayOf(current_week.now) + DaysPerWeek - 1
              /\ MondayOf(current_week.now) = MondayOf(current_week.now_again) =>
                    /\ DailySum - current_week.result.total_hours <= 4
                    /\ current_week.result.total_hours - DailySum <= 4

\* 20 minutes on the Monday and 20 minutes on the Tuesday of the week both
\* clock readings lie in: 0.33 + 0.33 against 0.67
C28_Witness ==
    /\ CurrentWeekSucceeded
    /\ MondayOf(current_week.now) = MondayOf(current_week.now_again)
    /\ Cardinality({k \in 1..DaysPerWeek :
                       current_week.result.daily_stats[k].hours > 0}) = 2
    /\ DailySum # current_week.result.total_hours

\* ------------------------------------------------------ the settings files
\* the settings file was lost or damaged when the last load began
LoadAfterLoss ==
    /\ storage.op = "load"
    /\ storage.before.settings_file.kind \in {"none", "empty", "garbage", "array"}

\* a backup that can be used: a file holding a JSON object
UsableBackup == storage.before.backup_file.kind = "object"

\* C29: a load_user_settings that finds user_settings.json lost or damaged
\* returns the settings the backup file holds and puts them back into
\* user_settings.json; it returns the empty map only when there is no usable
\* backup (or the backup holds the empty map).
C29_LoadRestoresBackup ==
    LoadAfterLoss =>
        /\ UsableBackup =>
              /\ storage.result = loads(storage.before.backup_file)
              /\ storage.settings_file = storage.before.backup_file
        /\ storage.result = NoSettings =>
              \/ ~UsableBackup
              \/ loads(storage.before.backup_file) = NoSettings

\* ------------------------------------------------- the token and the bot
Before(user_id) == settings_of(bot.user_settings, user_id)

After(user_id) == settings_of(bot'.user_settings, user_id)

GatedCommands == {"/stats", "/weekly", "/project", "/weeks", "/notifications"}

\* one update handled by the bot, for the user who sent it
TokenStep ==
    LET user_id == bot'.last.user
        op == bot'.last.op
    IN  /\ \A other \in BotUsers \ {user_id} : After(other) = Before(other)
        /\ /\ "token" \in DOMAIN After(user_id)
           /\ \/ "token" \notin DOMAIN Before(user_id)
              \/ After(user_id)["token"] # Before(user_id)["token"]
           => /\ op = "text"
              /\ waiting_for_token(bot.user_settings, user_id)
              /\ bot'.last.valid
              /\ After(user_id)["token"] = "good"
        /\ op = "text" /\ waiting_for_token(bot.user_settings, user_id) /\ ~bot'.last.valid
           => /\ bot'.user_settings = bot.user_settings
              /\ "token" \notin DOMAIN After(user_id)
              /\ waiting_for_token(bot'.user_settings, user_id)
        /\ op \in GatedCommands /\ ~has_token(bot.user_settings, user_id)
           => /\ bot'.user_settings = bot.user_settings
              /\ ~bot'.last.analysis
        /\ op = "/logout" /\ has_token(bot.user_settings, user_id)
           => /\ DOMAIN After(user_id) = {"project", "weeks", "waiting_for_token"}
              /\ After(user_id)["waiting_for_token"]
              /\ After(user_id)["project"] = dict_get(Before(user_id), "project", NoProject)
              /\ After(user_id)["weeks"] = dict_get(Before(user_id), "weeks", NoWeeks)

\* C30: a token is stored only by a text message received while
\* waiting_for_token is true and whose validation against the tracker
\* succeeded; a failed validation leaves the token absent and waiting_for_token
\* true; /stats, /weekly, /project, /weeks and /notifications change no
\* setting and run no analysis for a user without token; /logout of a user
\* with a token leaves only project and weeks, as they were, and
\* waiting_for_token true.
C30_TokenOnlyAfterValidation == [][TokenStep]_vars

\* a user who set a project and logged out, and whose next token was refused
C30_Witness ==
    /\ bot.last.op = "text"
    /\ bot.last.was_waiting
    /\ ~bot.last.valid
    /\ ~has_token(bot.user_settings, bot.last.user)
    /\ waiting_for_token(bot.user_settings, bot.last.user)
    /\ dict_get(bot.user_settings[bot.last.user], "project", NoProject) = "A"

====
